---------------------------- MODULE Spec2Model ----------------------------
(***************************************************************************)
(* Model of the PDF parsing service (alannreyes/pdf-parser-api).           *)
(*                                                                         *)
(*   SpecClassify : PdfClassifierService.clasificarPDF over a bounded set  *)
(*                  of PDF buffers.                                        *)
(*   SpecParse    : PdfParserService.parsePdf, one request from the        *)
(*                  classification to the returned result, the remote      *)
(*                  calls going through callOpenAIWithRetry.               *)
(*   SpecQueue    : the shared PQueue of callOpenAIWithRetry under several *)
(*                  concurrent submitters, with a clock.                   *)
(***************************************************************************)
EXTENDS Integers, Sequences, FiniteSets, TLC

VARIABLES
    buffer,         \* the bytes handed to clasificarPDF / parsePdf, by their features
    cpc,            \* position of the classifier call: "start" | "returned" | "raised"
    clasificacion,  \* the ResultadoClasificacion returned by clasificarPDF
    config,         \* the configuration read by the constructor of PdfParserService
    options,        \* the ParsePdfDto of the request
    pc,             \* position of parsePdf
    useLocalProcessing, \* the local const of parsePdf
    result,         \* the result object parsePdf builds and returns
    outcome,        \* "pending" | "returned" | "thrown" (HttpException)
    call,           \* the call of this request inside callOpenAIWithRetry
    submitted,      \* history: the calls handed to callOpenAIWithRetry, in order
    visited,        \* history: the steps of parsePdf that were entered
    remoteFailed,   \* history: the remote calls of the request that were rejected
    now,            \* Date.now(), in milliseconds
    pq,             \* the PQueue of the service: its queue, counters and timers
    calls,          \* the calls handed to callOpenAIWithRetry by concurrent requests
    admitLog,       \* history: the jobs the queue started, with the time
    invokeLog,      \* history: the invocations of apiCall, with the time
    pdfText,        \* the text handed to processLocalMarkdown, as lines of tokens
    rendered,       \* history: what the calls of processLocalMarkdown on pdfText gave
    claimextract,   \* the rows of table 'claimextract', in the order find() returns them
    files,          \* the uploaded files handed to extractFromDocuments
    epc,            \* position of extractFromDocuments
    extractConfigs, \* the local const of extractFromDocuments
    fileIndex,      \* the file the for loop of extractFromDocuments is at
    response,       \* the result object of extractFromDocuments, by its own properties
    extractLog      \* history: the calls of pdfParse and of the completion API, by file

classifyVars == <<buffer, cpc, clasificacion>>
parseVars == <<config, options, pc, useLocalProcessing, result, outcome, call,
               submitted, visited, remoteFailed>>
queueVars == <<now, pq, calls, admitLog, invokeLog>>
renderVars == <<pdfText, rendered>>
extractVars == <<claimextract, files, epc, extractConfigs, fileIndex, response, extractLog>>
vars == <<classifyVars, parseVars, queueVars, renderVars, extractVars>>

-----------------------------------------------------------------------------
(* Bounds                                                                  *)

MaxPages == 3
MaxFields == 2
MaxCoverage == 2
MaxRetriesBound == 3
NumCalls == 3
MaxTicks == 4
StepsPerInterval == 3
MaxRateLimit == 2
MaxLines == 2
MaxFiles == 2
MaxRows == 2

(* Thresholds of the classifier, characters per page.                      *)
UmbralAlta == 500
UmbralMedia == 100
UmbralMixto == 100

-----------------------------------------------------------------------------
(* TipoPDF, pdf-types.ts                                                   *)

NATIVO == "PDF_NATIVO"
ESCANEADO == "PDF_ESCANEADO"
MIXTO == "PDF_MIXTO"
FORMULARIO == "PDF_FORMULARIO"
PROTEGIDO == "PDF_PROTEGIDO"

TipoPDF == {NATIVO, ESCANEADO, MIXTO, FORMULARIO, PROTEGIDO}

CalidadTexto == {"alta", "media", "baja", "sin_texto"}

-----------------------------------------------------------------------------
(* The input buffers.  A buffer is described by what the two PDF libraries *)
(* make of it:                                                             *)
(*   parse     "ok" | "throw"      outcome of pdf(buffer) (pdf-parse)      *)
(*   parseMsg  the kind of message of the error pdf-parse throws           *)
(*   numpages  dataParse.numpages                                          *)
(*   chars     dataParse.text.trim().length                                *)
(*   hasInfo   dataParse.info is present                                   *)
(*   flags     which of info.IsEncrypted, info.IsAcroFormPresent,          *)
(*             metadata.encrypted are === true                             *)
(*   load      "ok" | "throw"      outcome of PDFDocument.load(buffer)     *)
(*   form      "throw" when getForm()/getFields() throws, else "ok"        *)
(*   fields    form.getFields().length                                     *)
(*   insurance the text holds at least 3 of the insurance keywords         *)
(*   coverage  number of matches in the text of the global coverage pattern *)
(*             of extractInsuranceData                                     *)
(* pdf-parse builds text page by page, so a document of zero pages has no  *)
(* text; info and metadata come from one getMetadata() answer, so without  *)
(* info there is no metadata either.                                       *)

(* Messages of the errors that reach the catch block of parsePdf.          *)
MsgPassword == "No password given"
MsgInvalid == "Invalid PDF structure"
MsgOpenAI == "Error al procesar con OpenAI"
MsgTypeError == "Cannot read properties of undefined (reading 'trim')"

ProtectionFlags == {"IsEncrypted", "IsAcroFormPresent", "metadata.encrypted"}

(* Character counts on both sides of every per-page threshold.             *)
TextCounts ==
    {0, 1} \cup
    { p * t + d : p \in 1..MaxPages, t \in {UmbralMedia, UmbralAlta}, d \in {-1, 0, 1} }

ParsedBuffers ==
    { b \in [parse : {"ok"}, parseMsg : {"none"},
             numpages : 0..MaxPages, chars : TextCounts,
             hasInfo : BOOLEAN, flags : SUBSET ProtectionFlags,
             load : {"ok", "throw"}, form : {"ok", "throw"}, fields : 0..MaxFields,
             insurance : BOOLEAN, coverage : 0..MaxCoverage] :
        /\ (b.numpages = 0 => b.chars = 0)
        /\ (~b.hasInfo => b.flags = {})
        /\ (b.load = "throw" => b.form = "ok" /\ b.fields = 0)
        /\ (b.form = "throw" => b.fields = 0)
        /\ (b.insurance => b.chars > 0)
        /\ (b.coverage > 0 => b.chars > 0) }

UnparsedBuffers ==
    [parse : {"throw"}, parseMsg : {MsgPassword, MsgInvalid},
     numpages : {0}, chars : {0}, hasInfo : {FALSE}, flags : {{}},
     load : {"ok", "throw"}, form : {"ok"}, fields : {0}, insurance : {FALSE},
     coverage : {0}]

Buffers == ParsedBuffers \cup UnparsedBuffers

-----------------------------------------------------------------------------
(* PdfClassifierService                                                    *)

(* verificarProteccion: data.info && (IsEncrypted === true ||              *)
(* IsAcroFormPresent === true || data.metadata?.encrypted === true); a     *)
(* missing info object gives a falsy value.                                *)
verificarProteccion(data) ==
    data.hasInfo /\ ( "IsEncrypted" \in data.flags
                      \/ "IsAcroFormPresent" \in data.flags
                      \/ "metadata.encrypted" \in data.flags )

(* textoPorPagina = cantidadTexto / numpages is a floating point quotient; *)
(* with numpages = 0 and no text it is NaN, and every comparison with NaN  *)
(* is false.  For numpages > 0 the comparisons are done on the products.   *)
textoPorPaginaGT(cantidadTexto, numpages, umbral) ==
    numpages > 0 /\ cantidadTexto > umbral * numpages

textoPorPaginaLT(cantidadTexto, numpages, umbral) ==
    numpages > 0 /\ cantidadTexto < umbral * numpages

(* Mutant: the thresholds compared with >= instead of >.                   *)
calidadDeTextoUmbralInclusivo(cantidadTexto, numpages) ==
    IF ~(cantidadTexto > 0) THEN "sin_texto"
    ELSE IF numpages > 0 /\ cantidadTexto >= UmbralAlta * numpages THEN "alta"
    ELSE IF numpages > 0 /\ cantidadTexto >= UmbralMedia * numpages THEN "media"
    ELSE "baja"

calidadDeTexto(cantidadTexto, numpages) ==
    IF ~(cantidadTexto > 0) THEN "sin_texto"
    ELSE IF textoPorPaginaGT(cantidadTexto, numpages, UmbralAlta) THEN "alta"
    ELSE IF textoPorPaginaGT(cantidadTexto, numpages, UmbralMedia) THEN "media"
    ELSE "baja"

(* Verificar formularios: the inner try/catch leaves tieneFormularios false *)
(* when getForm()/getFields() throws.                                      *)
tieneFormulariosDe(b) ==
    IF b.form = "throw" THEN FALSE ELSE b.fields > 0

(* Mutant: the form rule tested before the protection rule.                *)
determinarTipoFormularioPrimero(estaProtegido, tieneFormularios, tieneTexto, cantidadTexto, numpages) ==
    IF tieneFormularios
        THEN [tipo |-> FORMULARIO, requiereOCR |-> FALSE, metodoExtraccion |-> "extraer_formularios"]
    ELSE IF estaProtegido
        THEN [tipo |-> PROTEGIDO, requiereOCR |-> FALSE, metodoExtraccion |-> "desencriptar_primero"]
    ELSE IF ~tieneTexto
        THEN [tipo |-> ESCANEADO, requiereOCR |-> TRUE, metodoExtraccion |-> "ocr_requerido"]
    ELSE IF textoPorPaginaLT(cantidadTexto, numpages, UmbralMixto)
        THEN [tipo |-> MIXTO, requiereOCR |-> TRUE, metodoExtraccion |-> "ocr_mejorado"]
    ELSE [tipo |-> NATIVO, requiereOCR |-> FALSE, metodoExtraccion |-> "extraccion_directa"]

(* Mutant: the low-density rule compared with <= instead of <.             *)
determinarTipoMixtoInclusivo(estaProtegido, tieneFormularios, tieneTexto, cantidadTexto, numpages) ==
    IF estaProtegido
        THEN [tipo |-> PROTEGIDO, requiereOCR |-> FALSE, metodoExtraccion |-> "desencriptar_primero"]
    ELSE IF tieneFormularios
        THEN [tipo |-> FORMULARIO, requiereOCR |-> FALSE, metodoExtraccion |-> "extraer_formularios"]
    ELSE IF ~tieneTexto
        THEN [tipo |-> ESCANEADO, requiereOCR |-> TRUE, metodoExtraccion |-> "ocr_requerido"]
    ELSE IF numpages > 0 /\ cantidadTexto <= UmbralMixto * numpages
        THEN [tipo |-> MIXTO, requiereOCR |-> TRUE, metodoExtraccion |-> "ocr_mejorado"]
    ELSE [tipo |-> NATIVO, requiereOCR |-> FALSE, metodoExtraccion |-> "extraccion_directa"]

(* The if / else-if chain that determines tipo, requiereOCR and            *)
(* metodoExtraccion.                                                       *)
determinarTipo(estaProtegido, tieneFormularios, tieneTexto, cantidadTexto, numpages) ==
    IF estaProtegido
        THEN [tipo |-> PROTEGIDO, requiereOCR |-> FALSE, metodoExtraccion |-> "desencriptar_primero"]
    ELSE IF tieneFormularios
        THEN [tipo |-> FORMULARIO, requiereOCR |-> FALSE, metodoExtraccion |-> "extraer_formularios"]
    ELSE IF ~tieneTexto
        THEN [tipo |-> ESCANEADO, requiereOCR |-> TRUE, metodoExtraccion |-> "ocr_requerido"]
    ELSE IF textoPorPaginaLT(cantidadTexto, numpages, UmbralMixto)
        THEN [tipo |-> MIXTO, requiereOCR |-> TRUE, metodoExtraccion |-> "ocr_mejorado"]
    ELSE [tipo |-> NATIVO, requiereOCR |-> FALSE, metodoExtraccion |-> "extraccion_directa"]

(* The object returned from the catch block.                               *)
clasificacionPorDefecto ==
    [tipo |-> ESCANEADO, tieneTexto |-> FALSE, cantidadTexto |-> 0, numeroPaginas |-> 0,
     requiereOCR |-> TRUE, tieneFormularios |-> FALSE, estaProtegido |-> FALSE,
     metodoExtraccion |-> "ocr_requerido", calidadTexto |-> "sin_texto"]

(* The body of the try block: it throws when pdf(buffer) or                *)
(* PDFDocument.load(buffer) throws, and otherwise builds resultado.        *)
clasificarTry(b) ==
    IF b.parse = "throw" \/ b.load = "throw"
        THEN [threw |-> TRUE, ret |-> clasificacionPorDefecto]
    ELSE
        LET cantidadTexto == b.chars
            tieneTexto == cantidadTexto > 0
            estaProtegido == verificarProteccion(b)
            tieneFormularios == tieneFormulariosDe(b)
            t == determinarTipo(estaProtegido, tieneFormularios, tieneTexto,
                                cantidadTexto, b.numpages)
        IN [threw |-> FALSE,
            ret |-> [tipo |-> t.tipo, tieneTexto |-> tieneTexto,
                     cantidadTexto |-> cantidadTexto, numeroPaginas |-> b.numpages,
                     requiereOCR |-> t.requiereOCR, tieneFormularios |-> tieneFormularios,
                     estaProtegido |-> estaProtegido,
                     metodoExtraccion |-> t.metodoExtraccion,
                     calidadTexto |-> calidadDeTexto(cantidadTexto, b.numpages)]]

(* Mutant: no catch block, the parser's error propagates.                  *)
clasificarPDFSinCatch(b) == clasificarTry(b)

(* clasificarPDF: try { ... } catch { return the default }.                *)
clasificarPDF(b) ==
    LET r == clasificarTry(b)
    IN IF r.threw THEN [threw |-> FALSE, ret |-> clasificacionPorDefecto] ELSE r

(* The value of clasificacion before the classifier has returned.          *)
SinClasificar ==
    [tipo |-> "none", tieneTexto |-> FALSE, cantidadTexto |-> 0, numeroPaginas |-> 0,
     requiereOCR |-> FALSE, tieneFormularios |-> FALSE, estaProtegido |-> FALSE,
     metodoExtraccion |-> "", calidadTexto |-> "none"]

-----------------------------------------------------------------------------
(* SpecClassify: one call of clasificarPDF on any buffer.                  *)

NoCall == [purpose |-> "none", attempt |-> 0, invoked |-> 0]

(* The PQueue as the constructor leaves it.                                *)
EmptyQueue ==
    [queue |-> <<>>, pending |-> 0, intervalCount |-> 0,
     intervalId |-> FALSE, intervalAt |-> 0, intervalEnd |-> 0,
     timeoutId |-> FALSE, timeoutAt |-> 0]

QueueIdle ==
    /\ now = 0
    /\ pq = EmptyQueue
    /\ calls = <<>>
    /\ admitLog = <<>>
    /\ invokeLog = <<>>

RenderIdle ==
    /\ pdfText = <<>>
    /\ rendered = <<>>

ExtractIdle ==
    /\ claimextract = <<>>
    /\ files = <<>>
    /\ epc = "idle"
    /\ extractConfigs = <<>>
    /\ fileIndex = 0
    /\ response = <<>>
    /\ extractLog = <<>>

ParseIdle ==
    /\ config = [openAIEnabled |-> TRUE, fallbackToLocal |-> TRUE, maxTextLength |-> 30000,
                 useForSimplePdfsOnly |-> TRUE, localProcessingDefault |-> FALSE,
                 localProcessingForComplex |-> TRUE, maxRetries |-> 3,
                 rateLimit |-> 30, retryDelay |-> 2000]
    /\ options = [includeAnalysis |-> TRUE, extractMetadata |-> TRUE,
                  useLocalProcessing |-> FALSE]
    /\ pc = "Idle"
    /\ useLocalProcessing = FALSE
    /\ result = [markdown |-> "", clasificacion |-> FALSE, metadata |-> "absent",
                 analysis |-> "absent", warnings |-> <<>>, success |-> FALSE,
                 error |-> "none", processingMethod |-> "none"]
    /\ outcome = "pending"
    /\ call = [purpose |-> "none", attempt |-> 0, invoked |-> 0]
    /\ submitted = <<>>
    /\ visited = {}
    /\ remoteFailed = {}

ClassifyInit ==
    /\ buffer \in Buffers
    /\ cpc = "start"
    /\ clasificacion = SinClasificar
    /\ ParseIdle
    /\ QueueIdle
    /\ RenderIdle
    /\ ExtractIdle

Clasificar ==
    /\ cpc = "start"
    /\ LET r == clasificarPDF(buffer)
       IN /\ cpc' = IF r.threw THEN "raised" ELSE "returned"
          /\ clasificacion' = IF r.threw THEN SinClasificar ELSE r.ret
    /\ UNCHANGED <<buffer, parseVars, queueVars, renderVars, extractVars>>

ClassifyNext == Clasificar

SpecClassify == ClassifyInit /\ [][ClassifyNext]_vars

(* C1: clasificarPDF never raises: for every buffer it returns a           *)
(* classification with exactly one tipo of TipoPDF, and when pdf-parse or  *)
(* pdf-lib failed on the buffer the classification is the safe default     *)
(* (ESCANEADO, requiereOCR, no text, zero counts, not protected,           *)
(* calidadTexto sin_texto).                                                *)
C1_ClassifyNeverRaises ==
    /\ cpc # "raised"
    /\ cpc = "returned" =>
          /\ clasificacion.tipo \in TipoPDF
          /\ (buffer.parse = "throw" \/ buffer.load = "throw") =>
                /\ clasificacion.tipo = ESCANEADO
                /\ clasificacion.requiereOCR
                /\ clasificacion.cantidadTexto = 0
                /\ clasificacion.numeroPaginas = 0
                /\ ~clasificacion.tieneTexto
                /\ ~clasificacion.estaProtegido
                /\ clasificacion.calidadTexto = "sin_texto"

(* A buffer pdf-parse reads (with text and an encryption flag) but pdf-lib *)
(* refuses to load has been classified.                                    *)
C1_Witness ==
    /\ cpc = "returned"
    /\ buffer.parse = "ok" /\ buffer.load = "throw"
    /\ buffer.chars > 0 /\ "IsEncrypted" \in buffer.flags
    /\ clasificacion.tipo = ESCANEADO

(* C2: for a buffer both libraries read, the tipo follows the first rule   *)
(* that matches, in the order protected, form fields, no text, fewer than  *)
(* 100 characters per page, otherwise native; requiereOCR is set by the    *)
(* no-text and the low-density rules.                                      *)
C2_FirstMatchWins ==
    (cpc = "returned" /\ buffer.parse = "ok" /\ buffer.load = "ok") =>
        LET c == clasificacion
            prot == buffer.flags # {}
            form == buffer.form = "ok" /\ buffer.fields > 0
            text == buffer.chars > 0
            low == buffer.chars < 100 * buffer.numpages
        IN /\ prot => c.tipo = PROTEGIDO
           /\ (~prot /\ form) => c.tipo = FORMULARIO
           /\ (~prot /\ ~form /\ ~text) => (c.tipo = ESCANEADO /\ c.requiereOCR)
           /\ (~prot /\ ~form /\ text /\ low) => (c.tipo = MIXTO /\ c.requiereOCR)
           /\ (~prot /\ ~form /\ text /\ ~low) => (c.tipo = NATIVO /\ ~c.requiereOCR)

(* A protected buffer that also has form fields and sparse text was        *)
(* classified.                                                             *)
C2_Witness ==
    /\ cpc = "returned" /\ buffer.parse = "ok" /\ buffer.load = "ok"
    /\ buffer.flags # {} /\ buffer.fields > 0 /\ buffer.form = "ok"
    /\ buffer.chars = 1
    /\ clasificacion.tipo = PROTEGIDO

(* C3: calidadTexto is decided by cantidadTexto and numeroPaginas alone:   *)
(* sin_texto without text or without pages, alta above 500 characters per  *)
(* page, media above 100 and up to 500, baja up to 100.                    *)
C3_TextQuality ==
    cpc = "returned" =>
        LET n == clasificacion.cantidadTexto
            p == clasificacion.numeroPaginas
            q == clasificacion.calidadTexto
        IN /\ (n = 0 \/ p = 0) => q = "sin_texto"
           /\ (p > 0 /\ n > 500 * p) => q = "alta"
           /\ (p > 0 /\ n > 100 * p /\ n <= 500 * p) => q = "media"
           /\ (p > 0 /\ n > 0 /\ n <= 100 * p) => q = "baja"

(* A protected document with exactly 500 characters per page got media.    *)
C3_Witness ==
    /\ cpc = "returned"
    /\ clasificacion.tipo = PROTEGIDO
    /\ clasificacion.numeroPaginas = 2
    /\ clasificacion.cantidadTexto = 1000
    /\ clasificacion.calidadTexto = "media"

(* C20: a document both libraries read, without an encryption flag, whose  *)
(* form has fields is classified FORMULARIO with tieneFormularios and the  *)
(* form extraction method, and PROTEGIDO is given only to documents with   *)
(* an encryption flag.                                                     *)
C20_FormNeverProtected ==
    (cpc = "returned" /\ buffer.parse = "ok" /\ buffer.load = "ok") =>
        LET encrypted == buffer.flags \cap {"IsEncrypted", "metadata.encrypted"} # {}
        IN /\ (~encrypted /\ buffer.form = "ok" /\ buffer.fields > 0) =>
                 /\ clasificacion.tipo = FORMULARIO
                 /\ clasificacion.tieneFormularios
                 /\ clasificacion.metodoExtraccion = "extraer_formularios"
           /\ clasificacion.tipo = PROTEGIDO => encrypted

(* C27: tipo and calidadTexto of a classification agree: ESCANEADO has     *)
(* sin_texto, MIXTO has baja, and NATIVO has media or alta.                *)
C27_KindQualityConsistent ==
    cpc = "returned" =>
        /\ clasificacion.tipo = ESCANEADO => clasificacion.calidadTexto = "sin_texto"
        /\ clasificacion.tipo = MIXTO => clasificacion.calidadTexto = "baja"
        /\ clasificacion.tipo = NATIVO => clasificacion.calidadTexto \in {"media", "alta"}

(* C27 as the code has it: ESCANEADO has sin_texto, MIXTO has baja, and    *)
(* NATIVO has media or alta except at exactly 100 characters per page: an  *)
(* unprotected document without form fields whose text is 100 characters   *)
(* per page is NATIVO with baja.                                           *)
C27_KindQualityAtThreshold ==
    cpc = "returned" =>
        LET c == clasificacion
            atThreshold == c.numeroPaginas > 0 /\ c.cantidadTexto = 100 * c.numeroPaginas
        IN /\ c.tipo = ESCANEADO => c.calidadTexto = "sin_texto"
           /\ c.tipo = MIXTO => c.calidadTexto = "baja"
           /\ (c.tipo = NATIVO /\ ~atThreshold) => c.calidadTexto \in {"media", "alta"}
           /\ (~c.estaProtegido /\ ~c.tieneFormularios /\ atThreshold) =>
                 (c.tipo = NATIVO /\ c.calidadTexto = "baja")

(* A document of two pages and 200 characters, not protected and without   *)
(* form fields, was classified NATIVO with calidadTexto baja.              *)
C27_Witness ==
    /\ cpc = "returned"
    /\ buffer.parse = "ok" /\ buffer.load = "ok"
    /\ buffer.numpages = 2 /\ buffer.chars = 200
    /\ clasificacion.tipo = NATIVO
    /\ clasificacion.calidadTexto = "baja"

-----------------------------------------------------------------------------
(* PdfParserService: the local decision, the local renderer and analyzer   *)

(* pdfData.text.length: pdf-parse puts two newlines before the text of     *)
(* every page, the classifier counts the trimmed text.                     *)
textLength(b) == b.chars + 2 * b.numpages

(* Mutant: the text-length rule of the complex documents compared with >=. *)
shouldUseLocalProcessingMaxInclusive(cfg, c, b, opts) ==
    IF ~cfg.openAIEnabled THEN TRUE
    ELSE IF opts.useLocalProcessing THEN TRUE
    ELSE IF cfg.localProcessingDefault THEN TRUE
    ELSE IF cfg.localProcessingForComplex /\
            ( \/ c.tipo = PROTEGIDO
              \/ (c.tipo = ESCANEADO /\ textLength(b) = 0)
              \/ c.calidadTexto = "baja" \/ c.calidadTexto = "sin_texto"
              \/ textLength(b) >= cfg.maxTextLength
              \/ (c.tipo = MIXTO /\ c.requiereOCR) )
        THEN TRUE
    ELSE IF cfg.useForSimplePdfsOnly
        THEN ~( c.tipo = NATIVO /\ c.calidadTexto = "alta"
                /\ textLength(b) < cfg.maxTextLength )
    ELSE FALSE

(* Mutant: the override of the request is not looked at.                   *)
shouldUseLocalProcessingSinOverride(cfg, c, b, opts) ==
    IF ~cfg.openAIEnabled THEN TRUE
    ELSE IF cfg.localProcessingDefault THEN TRUE
    ELSE IF cfg.localProcessingForComplex /\
            ( \/ c.tipo = PROTEGIDO
              \/ (c.tipo = ESCANEADO /\ textLength(b) = 0)
              \/ c.calidadTexto = "baja" \/ c.calidadTexto = "sin_texto"
              \/ textLength(b) > cfg.maxTextLength
              \/ (c.tipo = MIXTO /\ c.requiereOCR) )
        THEN TRUE
    ELSE IF cfg.useForSimplePdfsOnly
        THEN ~( c.tipo = NATIVO /\ c.calidadTexto = "alta"
                /\ textLength(b) < cfg.maxTextLength )
    ELSE FALSE

(* shouldUseLocalProcessing(clasificacion, text, options): the chain of    *)
(* early returns.                                                          *)
shouldUseLocalProcessing(cfg, c, b, opts) ==
    IF ~cfg.openAIEnabled THEN TRUE
    ELSE IF opts.useLocalProcessing THEN TRUE
    ELSE IF cfg.localProcessingDefault THEN TRUE
    ELSE IF cfg.localProcessingForComplex /\
            ( \/ c.tipo = PROTEGIDO
              \/ (c.tipo = ESCANEADO /\ textLength(b) = 0)
              \/ c.calidadTexto = "baja" \/ c.calidadTexto = "sin_texto"
              \/ textLength(b) > cfg.maxTextLength
              \/ (c.tipo = MIXTO /\ c.requiereOCR) )
        THEN TRUE
    ELSE IF cfg.useForSimplePdfsOnly
        THEN ~( c.tipo = NATIVO /\ c.calidadTexto = "alta"
                /\ textLength(b) < cfg.maxTextLength )
    ELSE FALSE

(* processLocalMarkdown, by the sub-renderer that produces the markdown.   *)
processLocalMarkdown(b, c) ==
    IF b.chars = 0 THEN "local:placeholder"
    ELSE IF b.insurance THEN "local:insurance"
    ELSE IF c.tipo = FORMULARIO THEN "local:form"
    ELSE "local:general"

(* analyzeContentLocally: extractInsuranceData reads match[1].trim() of    *)
(* text.match(<global coverage pattern>), which is the second match of the *)
(* pattern and is undefined when the pattern matches exactly once.         *)
analyzeContentLocally(b) ==
    IF b.coverage = 1 THEN [threw |-> TRUE, msg |-> MsgTypeError, value |-> "absent"]
    ELSE [threw |-> FALSE, msg |-> "", value |-> "local"]

(* Mutant: the special response only for protected documents without text. *)
esRespuestaProtegidaSoloSinTexto(c) == c.tipo = PROTEGIDO /\ ~c.tieneTexto

(* The test of parsePdf that returns the protected response.               *)
esRespuestaProtegida(c) == c.tipo = PROTEGIDO

(* The test of the catch block of parsePdf on error.message.               *)
esErrorDeProteccion(msg) == msg = MsgPassword

(* Mutant: the rethrow tested against maxRetries instead of                *)
(* maxRetries - 1.                                                         *)
despuesDeFalloUnoMas(attempt, status, maxRetries, retryDelay) ==
    IF status = 429 /\ attempt < maxRetries - 1
        THEN [throw |-> FALSE, wait |-> (2 ^ attempt) * retryDelay]
    ELSE IF attempt = maxRetries
        THEN [throw |-> TRUE, wait |-> 0]
    ELSE [throw |-> FALSE, wait |-> retryDelay]

(* Mutant: the flat retryDelay after a rate-limit rejection too.           *)
despuesDeFalloEsperaFija(attempt, status, maxRetries, retryDelay) ==
    IF status = 429 /\ attempt < maxRetries - 1
        THEN [throw |-> FALSE, wait |-> retryDelay]
    ELSE IF attempt = maxRetries - 1
        THEN [throw |-> TRUE, wait |-> 0]
    ELSE [throw |-> FALSE, wait |-> retryDelay]

(* callOpenAIWithRetry, the catch block of the loop after failed attempt   *)
(* number attempt (from 0): rethrow, or the time to sleep before the next  *)
(* attempt.                                                                *)
despuesDeFallo(attempt, status, maxRetries, retryDelay) ==
    IF status = 429 /\ attempt < maxRetries - 1
        THEN [throw |-> FALSE, wait |-> (2 ^ attempt) * retryDelay]
    ELSE IF attempt = maxRetries - 1
        THEN [throw |-> TRUE, wait |-> 0]
    ELSE [throw |-> FALSE, wait |-> retryDelay]

-----------------------------------------------------------------------------
(* SpecParse: one request of parsePdf.                                     *)

MaxTextLengths == {502, 503, 30000}
MaxRetriesValues == 0..MaxRetriesBound

Configs ==
    [openAIEnabled : BOOLEAN, fallbackToLocal : BOOLEAN, maxTextLength : MaxTextLengths,
     useForSimplePdfsOnly : BOOLEAN, localProcessingDefault : BOOLEAN,
     localProcessingForComplex : BOOLEAN, maxRetries : MaxRetriesValues,
     rateLimit : {30}, retryDelay : {2000}]

Options == [includeAnalysis : BOOLEAN, extractMetadata : BOOLEAN, useLocalProcessing : BOOLEAN]

(* The buffers of the requests: one page at most, every tipo and every     *)
(* calidadTexto.                                                           *)
RequestBuffers ==
    { b \in Buffers :
        /\ b.numpages <= 1 /\ b.fields <= 1 /\ b.form = "ok"
        /\ b.chars \in {0, 99, 100, 500, 501}
        /\ b.flags \in {{}, {"IsEncrypted"}}
        /\ (b.parse = "ok" => b.hasInfo)
        /\ ~(b.insurance /\ b.coverage > 0) }

ParseInit ==
    /\ buffer \in RequestBuffers
    /\ cpc = "start"
    /\ clasificacion = SinClasificar
    /\ config \in Configs
    /\ options \in Options
    /\ pc = "Classifying"
    /\ useLocalProcessing = FALSE
    /\ result = [markdown |-> "", clasificacion |-> FALSE, metadata |-> "absent",
                 analysis |-> "absent", warnings |-> <<>>, success |-> FALSE,
                 error |-> "none", processingMethod |-> "none"]
    /\ outcome = "pending"
    /\ call = NoCall
    /\ submitted = <<>>
    /\ visited = {}
    /\ remoteFailed = {}
    /\ QueueIdle
    /\ RenderIdle
    /\ ExtractIdle

(* The catch block of parsePdf: a message that mentions encryption or a    *)
(* password gives the PDF_PROTECTED object, any other error an             *)
(* HttpException (500).                                                    *)
CatchParsePdf(msg) ==
    /\ pc' = "Done"
    /\ call' = NoCall
    /\ IF esErrorDeProteccion(msg)
         THEN /\ outcome' = "returned"
              /\ result' = [markdown |-> "", clasificacion |-> FALSE,
                            metadata |-> "catch_protected", analysis |-> "catch_protected",
                            warnings |-> <<>>, success |-> FALSE,
                            error |-> "PDF_PROTECTED", processingMethod |-> "none"]
         ELSE /\ outcome' = "thrown"
              /\ UNCHANGED result

(* parsePdf up to the return of the protected response.                    *)
PClasificar ==
    /\ pc = "Classifying"
    /\ LET r == clasificarPDF(buffer)
       IN IF r.threw
            THEN /\ cpc' = "raised"
                 /\ CatchParsePdf(MsgInvalid)
                 /\ UNCHANGED clasificacion
            ELSE /\ cpc' = "returned"
                 /\ clasificacion' = r.ret
                 /\ call' = NoCall
                 /\ IF esRespuestaProtegida(r.ret)
                      THEN /\ pc' = "Done"
                           /\ outcome' = "returned"
                           /\ result' = [markdown |-> "", clasificacion |-> TRUE,
                                         metadata |-> "protected", analysis |-> "protected",
                                         warnings |-> <<"PDF_PROTEGIDO">>, success |-> FALSE,
                                         error |-> "PDF_PROTECTED", processingMethod |-> "none"]
                      ELSE /\ pc' = "Extracting"
                           /\ UNCHANGED <<outcome, result>>
    /\ UNCHANGED <<buffer, config, options, useLocalProcessing, submitted, visited, remoteFailed>>

(* validarProcesamiento (a log line), pdfParse(buffer), the decision, the  *)
(* result object, the metadata and the OCR warning.                        *)
PExtraer ==
    /\ pc = "Extracting"
    /\ visited' = visited \cup {"extract"}
    /\ IF buffer.parse = "throw"
         THEN /\ CatchParsePdf(buffer.parseMsg)
              /\ UNCHANGED useLocalProcessing
         ELSE LET local == shouldUseLocalProcessing(config, clasificacion, buffer, options)
              IN /\ useLocalProcessing' = local
                 /\ result' = [markdown |-> "", clasificacion |-> TRUE,
                               metadata |-> IF options.extractMetadata THEN "pdf" ELSE "absent",
                               analysis |-> "absent",
                               warnings |-> IF clasificacion.requiereOCR
                                              THEN <<"OCR_REQUERIDO">> ELSE <<>>,
                               success |-> TRUE, error |-> "none",
                               processingMethod |-> IF local THEN "local" ELSE "gpt"]
                 /\ pc' = "Rendering"
                 /\ UNCHANGED <<outcome, call>>
    /\ UNCHANGED <<classifyVars, config, options, submitted, remoteFailed>>

(* Convertir a markdown, local branch.                                     *)
PRenderLocal ==
    /\ pc = "Rendering" /\ useLocalProcessing
    /\ visited' = visited \cup {"render"}
    /\ result' = [result EXCEPT !.markdown = processLocalMarkdown(buffer, clasificacion)]
    /\ pc' = "Analyzing"
    /\ UNCHANGED <<classifyVars, config, options, useLocalProcessing, outcome, call,
                   submitted, remoteFailed>>

(* Mutant: the fallback leaves processingMethod and the warnings alone.    *)
RenderRechazadoSinMarca ==
    /\ remoteFailed' = remoteFailed \cup {"markdown"}
    /\ IF config.fallbackToLocal
         THEN /\ result' = [result EXCEPT
                     !.markdown = processLocalMarkdown(buffer, clasificacion)]
              /\ pc' = "Analyzing"
              /\ call' = NoCall
              /\ UNCHANGED outcome
         ELSE CatchParsePdf(MsgOpenAI)

(* The catch block around convertToMarkdown in parsePdf; convertToMarkdown *)
(* has replaced the error by HttpException('Error al procesar con OpenAI').*)
RenderRechazado ==
    /\ remoteFailed' = remoteFailed \cup {"markdown"}
    /\ IF config.fallbackToLocal
         THEN /\ result' = [result EXCEPT
                     !.markdown = processLocalMarkdown(buffer, clasificacion),
                     !.processingMethod = "local_fallback",
                     !.warnings = Append(@, "GPT_FALLBACK")]
              /\ pc' = "Analyzing"
              /\ call' = NoCall
              /\ UNCHANGED outcome
         ELSE CatchParsePdf(MsgOpenAI)

(* Convertir a markdown, remote branch: convertToMarkdown hands the call   *)
(* to callOpenAIWithRetry.  With maxRetries = 0 the loop body never runs   *)
(* and the call resolves with undefined.                                   *)
PRenderRemoto ==
    /\ pc = "Rendering" /\ ~useLocalProcessing
    /\ visited' = visited \cup {"render"}
    /\ submitted' = Append(submitted, "markdown")
    /\ IF config.maxRetries <= 0
         THEN /\ result' = [result EXCEPT !.markdown = "undefined"]
              /\ pc' = "Analyzing"
              /\ call' = NoCall
         ELSE /\ call' = [purpose |-> "markdown", attempt |-> 0, invoked |-> 1]
              /\ pc' = "RenderingRemote"
              /\ UNCHANGED result
    /\ UNCHANGED <<classifyVars, config, options, useLocalProcessing, outcome, remoteFailed>>

(* One attempt of the completion call of convertToMarkdown settles: with   *)
(* content, with empty content (content || ''), with status 429 or with    *)
(* another error.                                                          *)
PIntentoMarkdown ==
    /\ pc = "RenderingRemote" /\ call.purpose = "markdown"
    /\ \E res \in {"content", "empty", "429", "error"} :
         IF res \in {"content", "empty"}
           THEN /\ result' = [result EXCEPT !.markdown = IF res = "content" THEN "gpt" ELSE ""]
                /\ pc' = "Analyzing"
                /\ call' = NoCall
                /\ UNCHANGED <<outcome, remoteFailed>>
           ELSE LET d == despuesDeFallo(call.attempt, IF res = "429" THEN 429 ELSE 500,
                                        config.maxRetries, config.retryDelay)
                IN IF d.throw
                     THEN RenderRechazado
                     ELSE /\ call' = [call EXCEPT !.attempt = @ + 1, !.invoked = @ + 1]
                          /\ UNCHANGED <<pc, result, outcome, remoteFailed>>
    /\ UNCHANGED <<classifyVars, config, options, useLocalProcessing, submitted, visited>>

(* Mutant: after the fallback of the rendering the analysis is local too.  *)
PAnalizarDecisionRevisada ==
    /\ pc = "Analyzing"
    /\ IF ~options.includeAnalysis
         THEN /\ pc' = "Done" /\ outcome' = "returned"
              /\ UNCHANGED <<result, call, submitted, visited>>
       ELSE IF useLocalProcessing \/ "markdown" \in remoteFailed
         THEN LET a == analyzeContentLocally(buffer)
              IN /\ visited' = visited \cup {"analyze"}
                 /\ UNCHANGED submitted
                 /\ IF a.threw
                      THEN CatchParsePdf(a.msg)
                      ELSE /\ result' = [result EXCEPT !.analysis = a.value]
                           /\ pc' = "Done" /\ outcome' = "returned"
                           /\ UNCHANGED call
       ELSE /\ visited' = visited \cup {"analyze"}
            /\ submitted' = Append(submitted, "analysis")
            /\ IF config.maxRetries <= 0
                 THEN /\ result' = [result EXCEPT !.analysis = "undefined"]
                      /\ pc' = "Done" /\ outcome' = "returned"
                      /\ call' = NoCall
                 ELSE /\ call' = [purpose |-> "analysis", attempt |-> 0, invoked |-> 1]
                      /\ pc' = "AnalyzingRemote"
                      /\ UNCHANGED <<result, outcome>>
    /\ UNCHANGED <<classifyVars, config, options, useLocalProcessing, remoteFailed>>

(* Realizar análisis: nothing to do, the local analyzer, or the call of    *)
(* analyzePdfContent handed to callOpenAIWithRetry.                        *)
PAnalizar ==
    /\ pc = "Analyzing"
    /\ IF ~options.includeAnalysis
         THEN /\ pc' = "Done" /\ outcome' = "returned"
              /\ UNCHANGED <<result, call, submitted, visited>>
       ELSE IF useLocalProcessing
         THEN LET a == analyzeContentLocally(buffer)
              IN /\ visited' = visited \cup {"analyze"}
                 /\ UNCHANGED submitted
                 /\ IF a.threw
                      THEN CatchParsePdf(a.msg)
                      ELSE /\ result' = [result EXCEPT !.analysis = a.value]
                           /\ pc' = "Done" /\ outcome' = "returned"
                           /\ UNCHANGED call
       ELSE /\ visited' = visited \cup {"analyze"}
            /\ submitted' = Append(submitted, "analysis")
            /\ IF config.maxRetries <= 0
                 THEN /\ result' = [result EXCEPT !.analysis = "undefined"]
                      /\ pc' = "Done" /\ outcome' = "returned"
                      /\ call' = NoCall
                 ELSE /\ call' = [purpose |-> "analysis", attempt |-> 0, invoked |-> 1]
                      /\ pc' = "AnalyzingRemote"
                      /\ UNCHANGED <<result, outcome>>
    /\ UNCHANGED <<classifyVars, config, options, useLocalProcessing, remoteFailed>>

(* analyzePdfContent: try { return await callOpenAIWithRetry(...) }        *)
(* catch { return null }: the value it gives parsePdf when the call        *)
(* settles.                                                                *)
analyzePdfContent(settled) ==
    IF settled.rejected THEN [threw |-> FALSE, value |-> "null"]
    ELSE [threw |-> FALSE, value |-> settled.value]

(* The try/catch around analyzePdfContent in parsePdf.                     *)
AnalisisTerminado(settled) ==
    LET a == analyzePdfContent(settled)
    IN /\ remoteFailed' = IF settled.rejected THEN remoteFailed \cup {"analysis"}
                          ELSE remoteFailed
       /\ pc' = "Done" /\ outcome' = "returned" /\ call' = NoCall
       /\ IF ~a.threw
            THEN /\ result' = [result EXCEPT !.analysis = a.value]
                 /\ UNCHANGED visited
            ELSE IF config.fallbackToLocal
              THEN LET l == analyzeContentLocally(buffer)
                   IN /\ result' = [result EXCEPT !.analysis = l.value]
                      /\ visited' = visited \cup {"analyze_local"}
              ELSE /\ result' = [result EXCEPT !.analysis = "null"]
                   /\ UNCHANGED visited

(* One attempt of the completion call of analyzePdfContent settles: with a *)
(* JSON object, with no content (the callback returns null), with content  *)
(* JSON.parse rejects (an error inside the callback), with status 429 or   *)
(* with another error.                                                     *)
PIntentoAnalisis ==
    /\ pc = "AnalyzingRemote" /\ call.purpose = "analysis"
    /\ \E res \in {"json", "empty", "badjson", "429", "error"} :
         IF res \in {"json", "empty"}
           THEN AnalisisTerminado([rejected |-> FALSE,
                                   value |-> IF res = "json" THEN "gpt" ELSE "null"])
           ELSE LET d == despuesDeFallo(call.attempt, IF res = "429" THEN 429 ELSE 500,
                                        config.maxRetries, config.retryDelay)
                IN IF d.throw
                     THEN AnalisisTerminado([rejected |-> TRUE, value |-> "absent"])
                     ELSE /\ call' = [call EXCEPT !.attempt = @ + 1, !.invoked = @ + 1]
                          /\ UNCHANGED <<pc, result, outcome, remoteFailed, visited>>
    /\ UNCHANGED <<classifyVars, config, options, useLocalProcessing, submitted>>

ParseNext ==
    \/ PClasificar /\ UNCHANGED <<queueVars, renderVars, extractVars>>
    \/ PExtraer /\ UNCHANGED <<queueVars, renderVars, extractVars>>
    \/ PRenderLocal /\ UNCHANGED <<queueVars, renderVars, extractVars>>
    \/ PRenderRemoto /\ UNCHANGED <<queueVars, renderVars, extractVars>>
    \/ PIntentoMarkdown /\ UNCHANGED <<queueVars, renderVars, extractVars>>
    \/ PAnalizar /\ UNCHANGED <<queueVars, renderVars, extractVars>>
    \/ PIntentoAnalisis /\ UNCHANGED <<queueVars, renderVars, extractVars>>

SpecParse == ParseInit /\ [][ParseNext]_vars

-----------------------------------------------------------------------------
(* The PQueue of the service: new PQueue({concurrency: 1, interval: 60000, *)
(* intervalCap: rateLimit}), p-queue 8.  Jobs are started in the order     *)
(* they were added; a job is started only while fewer than concurrency     *)
(* jobs are pending and fewer than intervalCap jobs were started since the *)
(* interval counter was last reset; the counter is reset by a timer every  *)
(* interval milliseconds while the queue has work, and the timer is        *)
(* stopped when the queue runs empty.                                      *)

concurrency == 1
interval == 60000

(* The clock advances in steps of TimeStep; a timer fires at the first     *)
(* instant of the clock that is not before its deadline.                   *)
TimeStep == interval \div StepsPerInterval

CallIds == 1..NumCalls

(* Mutant: the queue built without a concurrency limit.                    *)
doesConcurrentAllowAnotherSinLimite(q) == TRUE

(* Mutant: the queue built with concurrency 2.                             *)
doesConcurrentAllowAnotherDosCarriles(q) == q.pending < 2

doesConcurrentAllowAnother(q) == q.pending < concurrency

doesIntervalAllowAnother(q, cap) == q.intervalCount < cap

(* The getter #isIntervalPaused: without a running interval timer, either  *)
(* the last interval is over and the counter is reset, or a timeout is set *)
(* for its end.                                                            *)
isIntervalPaused(q, t) ==
    IF ~q.intervalId
      THEN LET delay == q.intervalEnd - t
           IN IF delay < 0
                THEN [q |-> [q EXCEPT !.intervalCount = 0], paused |-> FALSE]
                ELSE [q |-> IF q.timeoutId THEN q
                            ELSE [q EXCEPT !.timeoutId = TRUE, !.timeoutAt = t + delay],
                      paused |-> TRUE]
      ELSE [q |-> q, paused |-> FALSE]

initializeIntervalIfNeeded(q, t) ==
    IF q.intervalId THEN q
    ELSE [q EXCEPT !.intervalId = TRUE, !.intervalAt = t + interval,
                   !.intervalEnd = t + interval]

(* #tryToStartAnother: q after the call, and the job it started, if any.   *)
(* Starting a job runs it up to its first await: #pending and              *)
(* #intervalCount are incremented.                                         *)
tryToStartAnother(q, t, cap) ==
    IF Len(q.queue) = 0
      THEN [q |-> [q EXCEPT !.intervalId = FALSE], jobs |-> <<>>]
      ELSE LET p == isIntervalPaused(q, t)
           IN IF doesIntervalAllowAnother(p.q, cap) /\ doesConcurrentAllowAnother(p.q)
                THEN LET started == [p.q EXCEPT !.queue = Tail(@), !.pending = @ + 1,
                                                !.intervalCount = @ + 1]
                     IN [q |-> IF p.paused THEN started
                               ELSE initializeIntervalIfNeeded(started, t),
                         jobs |-> <<Head(p.q.queue)>>]
                ELSE [q |-> p.q, jobs |-> <<>>]

(* #processQueue: while (this.#tryToStartAnother()) {}                     *)
RECURSIVE processQueue(_, _, _)
processQueue(q, t, cap) ==
    LET r == tryToStartAnother(q, t, cap)
    IN IF r.jobs = <<>> THEN r
       ELSE LET rest == processQueue(r.q, t, cap)
            IN [q |-> rest.q, jobs |-> r.jobs \o rest.jobs]

(* Mutant: the interval timer does not reset the counter.                  *)
onIntervalSinReinicio(q, t, cap) ==
    LET stopped == IF q.intervalCount = 0 /\ q.pending = 0 /\ q.intervalId
                     THEN [q EXCEPT !.intervalId = FALSE] ELSE q
    IN processQueue(stopped, t, cap)

(* #onInterval: stop the timer of an idle queue, reset the counter, start  *)
(* what may start.                                                         *)
onInterval(q, t, cap) ==
    LET stopped == IF q.intervalCount = 0 /\ q.pending = 0 /\ q.intervalId
                     THEN [q EXCEPT !.intervalId = FALSE] ELSE q
    IN processQueue([stopped EXCEPT !.intervalCount = 0], t, cap)

(* #next: a job has settled.                                               *)
next(q, t, cap) == tryToStartAnother([q EXCEPT !.pending = @ - 1], t, cap)

-----------------------------------------------------------------------------
(* SpecQueue: NumCalls calls handed to callOpenAIWithRetry by concurrent   *)
(* requests.  A call is "idle" (not yet made), "queued", "attempting" (an  *)
(* invocation of apiCall is awaited), "sleeping" (between two attempts),   *)
(* "finishing" (the job returned without awaiting anything), "resolved" or *)
(* "rejected".  error is the binding of the catch block of the loop, by    *)
(* the status of the rejection and the attempt that raised it; it becomes  *)
(* the rejection of the call when the catch block rethrows.  value is what *)
(* the promise of add() resolves with: the value returned by the attempt   *)
(* that succeeded, or undefined when the loop ends without a return.       *)

NoError == [status |-> 0, attempt |-> -1]
NoValue == [kind |-> "none", attempt |-> -1]
Undefined == [kind |-> "undefined", attempt |-> -1]
ReturnedBy(attempt) == [kind |-> "returned", attempt |-> attempt]

RetryDelays == {2000}

QueueConfigs ==
    [openAIEnabled : {TRUE}, fallbackToLocal : {TRUE}, maxTextLength : {30000},
     useForSimplePdfsOnly : {TRUE}, localProcessingDefault : {FALSE},
     localProcessingForComplex : {TRUE}, maxRetries : MaxRetriesValues,
     rateLimit : 1..MaxRateLimit, retryDelay : RetryDelays]

Running == {"attempting", "sleeping", "finishing"}

QueueInit ==
    /\ buffer \in {b \in UnparsedBuffers : b.parseMsg = MsgInvalid /\ b.load = "throw"}
    /\ cpc = "start"
    /\ clasificacion = SinClasificar
    /\ pc = "Idle"
    /\ options = [includeAnalysis |-> TRUE, extractMetadata |-> TRUE,
                  useLocalProcessing |-> FALSE]
    /\ useLocalProcessing = FALSE
    /\ result = [markdown |-> "", clasificacion |-> FALSE, metadata |-> "absent",
                 analysis |-> "absent", warnings |-> <<>>, success |-> FALSE,
                 error |-> "none", processingMethod |-> "none"]
    /\ outcome = "pending"
    /\ call = NoCall
    /\ submitted = <<>>
    /\ visited = {}
    /\ remoteFailed = {}
    /\ config \in QueueConfigs
    /\ now = TimeStep
    /\ pq = EmptyQueue
    /\ calls = [c \in CallIds |-> [st |-> "idle", attempt |-> 0, wakeAt |-> 0,
                                    error |-> NoError, value |-> NoValue]]
    /\ admitLog = <<>>
    /\ invokeLog = <<>>
    /\ RenderIdle
    /\ ExtractIdle

(* The jobs the queue has just started: the async function of              *)
(* callOpenAIWithRetry runs up to its first await, which is the first      *)
(* invocation of apiCall, or returns at once when the loop body never      *)
(* runs.                                                                   *)
Started(cs, jobs) ==
    [c \in DOMAIN cs |->
        IF \E i \in DOMAIN jobs : jobs[i] = c
          THEN [st |-> IF 0 < config.maxRetries THEN "attempting" ELSE "finishing",
                attempt |-> 0, wakeAt |-> 0, error |-> NoError, value |-> NoValue]
          ELSE cs[c]]

LogAt(jobs, t) == [i \in DOMAIN jobs |-> [call |-> jobs[i], at |-> t]]

AfterQueueStep(r, cs) ==
    /\ pq' = r.q
    /\ calls' = Started(cs, r.jobs)
    /\ admitLog' = admitLog \o LogAt(r.jobs, now)
    /\ invokeLog' = IF 0 < config.maxRetries THEN invokeLog \o LogAt(r.jobs, now)
                    ELSE invokeLog

(* Continuations of settled promises run before any timer or I/O event.    *)
NoMicrotask == \A c \in CallIds : calls[c].st # "finishing"

(* callOpenAIWithRetry(apiCall): this.queue.add(job).                      *)
Submit(c) ==
    /\ NoMicrotask
    /\ calls[c].st = "idle"
    /\ \A d \in CallIds : d < c => calls[d].st # "idle"
    /\ AfterQueueStep(tryToStartAnother([pq EXCEPT !.queue = Append(@, c)], now,
                                        config.rateLimit),
                      [calls EXCEPT ![c].st = "queued"])
    /\ UNCHANGED now

(* The awaited apiCall() resolves: the job returns its value, the promise  *)
(* of add() resolves and #next() runs.                                     *)
AttemptOk(c) ==
    /\ NoMicrotask
    /\ calls[c].st = "attempting"
    /\ AfterQueueStep(next(pq, now, config.rateLimit),
                      [calls EXCEPT ![c].st = "resolved",
                                    ![c].value = ReturnedBy(calls[c].attempt)])
    /\ UNCHANGED now

(* The awaited apiCall() rejects, with status 429 or with another error:   *)
(* the catch block rethrows, or sleeps before the next attempt.            *)
AttemptFail(c, status) ==
    /\ NoMicrotask
    /\ calls[c].st = "attempting"
    /\ LET d == despuesDeFallo(calls[c].attempt, status, config.maxRetries, config.retryDelay)
           error == [status |-> status, attempt |-> calls[c].attempt]
       IN IF d.throw
            THEN AfterQueueStep(next(pq, now, config.rateLimit),
                                [calls EXCEPT ![c].st = "rejected", ![c].error = error])
            ELSE /\ calls' = [calls EXCEPT ![c].st = "sleeping", ![c].error = error,
                                           ![c].wakeAt = now + d.wait]
                 /\ UNCHANGED <<pq, admitLog, invokeLog>>
    /\ UNCHANGED now

(* The sleep of the catch block is over: attempt++ and, while attempt <    *)
(* maxRetries, the next invocation of apiCall.                             *)
Wake(c) ==
    /\ NoMicrotask
    /\ calls[c].st = "sleeping" /\ calls[c].wakeAt <= now
    /\ IF calls[c].attempt + 1 < config.maxRetries
         THEN /\ calls' = [calls EXCEPT ![c].st = "attempting", ![c].attempt = @ + 1,
                                        ![c].error = NoError]
              /\ invokeLog' = Append(invokeLog, [call |-> c, at |-> now])
              /\ UNCHANGED <<pq, admitLog>>
         ELSE /\ AfterQueueStep(next(pq, now, config.rateLimit),
                                [calls EXCEPT ![c].st = "resolved", ![c].error = NoError,
                                              ![c].value = Undefined])
    /\ UNCHANGED now

(* A job that returned without awaiting: its continuation resolves the     *)
(* promise of add() and runs #next().                                      *)
Microtask(c) ==
    /\ calls[c].st = "finishing"
    /\ AfterQueueStep(next(pq, now, config.rateLimit),
                      [calls EXCEPT ![c].st = "resolved", ![c].value = Undefined])
    /\ UNCHANGED now

(* The setInterval timer of the queue fires.                               *)
IntervalTick ==
    /\ NoMicrotask
    /\ pq.intervalId /\ pq.intervalAt <= now
    /\ LET r == onInterval(pq, now, config.rateLimit)
       IN AfterQueueStep([r EXCEPT !.q = IF r.q.intervalId
                                           THEN [r.q EXCEPT !.intervalAt = now + interval]
                                           ELSE r.q],
                         calls)
    /\ UNCHANGED now

(* The timeout set by #isIntervalPaused fires: #onResumeInterval.          *)
TimeoutFire ==
    /\ NoMicrotask
    /\ pq.timeoutId /\ pq.timeoutAt <= now
    /\ LET r == onInterval(pq, now, config.rateLimit)
       IN AfterQueueStep([r EXCEPT !.q = [initializeIntervalIfNeeded(r.q, now)
                                            EXCEPT !.timeoutId = FALSE]],
                         calls)
    /\ UNCHANGED now

(* Time passes, when no timer is due.                                      *)
Tick ==
    /\ NoMicrotask
    /\ now < MaxTicks * TimeStep
    /\ ~(pq.intervalId /\ pq.intervalAt <= now)
    /\ ~(pq.timeoutId /\ pq.timeoutAt <= now)
    /\ \A c \in CallIds : ~(calls[c].st = "sleeping" /\ calls[c].wakeAt <= now)
    /\ now' = now + TimeStep
    /\ UNCHANGED <<pq, calls, admitLog, invokeLog>>

QueueNext ==
    \/ \E c \in CallIds : Submit(c) /\ UNCHANGED <<classifyVars, parseVars, renderVars, extractVars>>
    \/ \E c \in CallIds : AttemptOk(c) /\ UNCHANGED <<classifyVars, parseVars, renderVars, extractVars>>
    \/ \E c \in CallIds : \E status \in {429, 500} :
            AttemptFail(c, status) /\ UNCHANGED <<classifyVars, parseVars, renderVars, extractVars>>
    \/ \E c \in CallIds : Wake(c) /\ UNCHANGED <<classifyVars, parseVars, renderVars, extractVars>>
    \/ \E c \in CallIds : Microtask(c) /\ UNCHANGED <<classifyVars, parseVars, renderVars, extractVars>>
    \/ IntervalTick /\ UNCHANGED <<classifyVars, parseVars, renderVars, extractVars>>
    \/ TimeoutFire /\ UNCHANGED <<classifyVars, parseVars, renderVars, extractVars>>
    \/ Tick /\ UNCHANGED <<classifyVars, parseVars, renderVars, extractVars>>

SpecQueue == QueueInit /\ [][QueueNext]_vars

(* Entries of a log within the 60 seconds that start at entry i.           *)
InWindow(log, i) ==
    { j \in DOMAIN log : log[j].at >= log[i].at /\ log[j].at < log[i].at + interval }

(* C8: in any rolling window of 60 seconds the queue starts at most        *)
(* rateLimit of the submitted calls.                                       *)
C8_RollingAdmissions ==
    \A i \in DOMAIN admitLog : Cardinality(InWindow(admitLog, i)) <= config.rateLimit

(* C9: in any window of 60 seconds at most rateLimit invocations of the    *)
(* remote operation are started, retries included.                         *)
C9_RollingInvocations ==
    \A i \in DOMAIN invokeLog : Cardinality(InWindow(invokeLog, i)) <= config.rateLimit

(* C10: at most one call handed to callOpenAIWithRetry is running (between *)
(* its start by the queue and its settlement) at any time, and at most one *)
(* invocation of the remote operation is awaited.                          *)
C10_SingleLane ==
    /\ Cardinality({c \in CallIds : calls[c].st \in Running}) <= 1
    /\ pq.pending <= 1

(* One call is awaiting the remote operation while the two other calls of  *)
(* concurrent requests wait in the queue, with room left under the cap.    *)
C10_Witness ==
    /\ Cardinality({c \in CallIds : calls[c].st = "attempting"}) = 1
    /\ Cardinality({c \in CallIds : calls[c].st = "queued"}) >= 2
    /\ pq.intervalCount < config.rateLimit

(* The invocations of apiCall made for call c, and its attempts that were  *)
(* rejected.                                                               *)
Invocations(c) == Cardinality({i \in DOMAIN invokeLog : invokeLog[i].call = c})

FailedAttempts(c) ==
    calls[c].attempt + (IF calls[c].st \in {"sleeping", "rejected"} THEN 1 ELSE 0)

(* C11: apiCall is invoked at most maxRetries times for a call; a call     *)
(* that resolved with the value of attempt k was invoked k + 1 times and   *)
(* no more; and once maxRetries attempts of a call were rejected the call  *)
(* is rejected with the error of the last attempt, whatever its status.    *)
C11_BoundedAttempts ==
    \A c \in CallIds :
        /\ Invocations(c) <= config.maxRetries
        /\ (calls[c].st = "resolved" /\ calls[c].value.kind = "returned") =>
              Invocations(c) = calls[c].value.attempt + 1
        /\ (config.maxRetries > 0 /\ FailedAttempts(c) = config.maxRetries) =>
              /\ calls[c].st = "rejected"
              /\ calls[c].error.attempt = config.maxRetries - 1
              /\ calls[c].error.status \in {429, 500}
        /\ calls[c].st = "rejected" =>
              /\ Invocations(c) = config.maxRetries
              /\ calls[c].error.attempt = config.maxRetries - 1

(* A call whose two allowed attempts were rejected, the last one with      *)
(* status 429, is rejected with that error, and another call resolved      *)
(* with the value of its second attempt.                                   *)
C11_Witness ==
    /\ config.maxRetries = 2
    /\ \E c \in CallIds : /\ calls[c].st = "rejected"
                          /\ calls[c].error = [status |-> 429, attempt |-> 1]
                          /\ Invocations(c) = 2
    /\ \E c \in CallIds : /\ calls[c].st = "resolved"
                          /\ calls[c].value = ReturnedBy(1)

(* C12: the catch block that follows rejected attempt k sleeps only when k *)
(* is not the last allowed attempt, for retryDelay * 2^k milliseconds      *)
(* after status 429 and for retryDelay milliseconds after any other error. *)
C12_BackoffWaits ==
    [][ \A c \in CallIds :
           /\ (calls[c].st = "attempting" /\ calls'[c].st = "sleeping") =>
                 LET k == calls[c].attempt
                 IN /\ k < config.maxRetries - 1
                    /\ calls'[c].wakeAt - now =
                          IF calls'[c].error.status = 429
                            THEN config.retryDelay * 2 ^ k
                            ELSE config.retryDelay
           /\ (calls[c].st = "attempting" /\ calls[c].attempt >= config.maxRetries - 1) =>
                 calls'[c].st # "sleeping" ]_vars

(* A call sleeps after its second attempt was rejected with status 429,    *)
(* out of three allowed attempts.                                          *)
C12_Witness ==
    \E c \in CallIds :
        /\ calls[c].st = "sleeping"
        /\ calls[c].attempt = 1
        /\ calls[c].error.status = 429
        /\ config.maxRetries = 3 /\ config.retryDelay > 0

(* C13: a call that resolved resolves with the value returned by one of    *)
(* its attempts, and a call that was rejected had maxRetries attempts      *)
(* rejected.                                                               *)
C13_AllOrNothing ==
    \A c \in CallIds :
        /\ calls[c].st = "resolved" =>
              /\ calls[c].value.kind = "returned"
              /\ calls[c].value.attempt \in 0..(config.maxRetries - 1)
        /\ calls[c].st = "rejected" => FailedAttempts(c) = config.maxRetries

(* C26: the attempts of different calls do not interleave: the calls are   *)
(* started in the order they were submitted, all the attempts of a call    *)
(* come before the first attempt of the next one, and while a call that    *)
(* has made an attempt is running (awaiting the attempt or sleeping before *)
(* the next one) the last attempt started is its own.                      *)
C26_NoInterleaving ==
    /\ \A i, j \in DOMAIN admitLog : i < j => admitLog[i].call < admitLog[j].call
    /\ \A i, j \in DOMAIN invokeLog : i < j => invokeLog[i].call <= invokeLog[j].call
    /\ \A c \in CallIds :
          (calls[c].st \in Running /\ Invocations(c) > 0) =>
              invokeLog[Len(invokeLog)].call = c

(* The second call sleeps after a rejected attempt while the third waits   *)
(* in the queue, the first has settled and the cap leaves room.            *)
C26_Witness ==
    /\ calls[1].st \in {"resolved", "rejected"}
    /\ calls[2].st = "sleeping"
    /\ calls[3].st = "queued"
    /\ pq.intervalCount < config.rateLimit

-----------------------------------------------------------------------------
(* SpecQueueFair: SpecQueue with time that goes on and with the            *)
(* assumptions that every awaited attempt settles, that due timers and     *)
(* continuations run, and that time passes.                                *)

(* Time passes by moving the origin: now stays at TimeStep and every       *)
(* instant the state holds is TimeStep earlier.  The queue and the retry   *)
(* loop use instants only in comparisons with now and in differences from  *)
(* now, so an instant already past may stay at 0.                          *)
Earlier(t) == IF t > TimeStep THEN t - TimeStep ELSE 0

EarlierLog(log) == [i \in DOMAIN log |-> [log[i] EXCEPT !.at = Earlier(@)]]

Rebase ==
    /\ NoMicrotask
    /\ ~(pq.intervalId /\ pq.intervalAt <= now)
    /\ ~(pq.timeoutId /\ pq.timeoutAt <= now)
    /\ \A c \in CallIds : ~(calls[c].st = "sleeping" /\ calls[c].wakeAt <= now)
    /\ pq' = [pq EXCEPT !.intervalAt = Earlier(@), !.intervalEnd = Earlier(@),
                        !.timeoutAt = Earlier(@)]
    /\ calls' = [c \in CallIds |-> [calls[c] EXCEPT !.wakeAt = Earlier(@)]]
    /\ admitLog' = EarlierLog(admitLog)
    /\ invokeLog' = EarlierLog(invokeLog)
    /\ UNCHANGED now

NotQueueVars == <<classifyVars, parseVars, renderVars, extractVars>>

AttemptSettles ==
    \E c \in CallIds :
        \/ AttemptOk(c) /\ UNCHANGED NotQueueVars
        \/ \E status \in {429, 500} : AttemptFail(c, status) /\ UNCHANGED NotQueueVars

TimerFires ==
    \/ \E c \in CallIds : Wake(c) /\ UNCHANGED NotQueueVars
    \/ IntervalTick /\ UNCHANGED NotQueueVars
    \/ TimeoutFire /\ UNCHANGED NotQueueVars

ContinuationRuns == \E c \in CallIds : Microtask(c) /\ UNCHANGED NotQueueVars

TimePasses == Rebase /\ UNCHANGED NotQueueVars

QueueFairNext ==
    \/ \E c \in CallIds : Submit(c) /\ UNCHANGED NotQueueVars
    \/ AttemptSettles
    \/ TimerFires
    \/ ContinuationRuns
    \/ TimePasses

SpecQueueFair ==
    /\ QueueInit
    /\ [][QueueFairNext]_vars
    /\ WF_vars(AttemptSettles)
    /\ WF_vars(TimerFires)
    /\ WF_vars(ContinuationRuns)
    /\ WF_vars(TimePasses)

Settled == {"resolved", "rejected"}

(* C23: a call handed to callOpenAIWithRetry stays in the queue until the  *)
(* queue starts it, a call that was started is never queued or started     *)
(* again and a settled call stays settled; and every call that was handed  *)
(* over is eventually started and eventually resolves or is rejected: from *)
(* some instant on every call is either not yet handed over or settled.    *)
C23_EveryCallSettles ==
    /\ [](\A c \in CallIds :
             calls[c].st = "queued" <=> \E i \in DOMAIN pq.queue : pq.queue[i] = c)
    /\ [][ \A c \in CallIds :
              /\ calls[c].st = "queued" => calls'[c].st \in {"queued"} \cup Running
              /\ calls[c].st \in Running => calls'[c].st \in Running \cup Settled
              /\ calls[c].st \in Settled => calls'[c].st = calls[c].st ]_vars
    /\ <>[](\A c \in CallIds : calls[c].st \in {"idle"} \cup Settled)

(* With a cap of one start per interval all the calls have settled, the    *)
(* last of them after a retry: the third start is two intervals after the  *)
(* first.                                                                  *)
C23_Witness ==
    /\ config.rateLimit = 1
    /\ \A c \in CallIds : calls[c].st \in Settled
    /\ calls[NumCalls].attempt > 0

(* Markdown produced by the local renderer.                                *)
LocalMarkdowns == {"local:placeholder", "local:insurance", "local:form", "local:general"}

(* C4: a classification with estaProtegido has tipo PROTEGIDO and parsePdf *)
(* returns at once: no extraction, rendering or analysis step is entered,  *)
(* no call is handed to callOpenAIWithRetry, nothing is thrown, and the    *)
(* result has markdown '', success false and error PDF_PROTECTED, for      *)
(* every option and configuration.                                         *)
C4_ProtectedShortCircuit ==
    (cpc = "returned" /\ clasificacion.estaProtegido) =>
        /\ clasificacion.tipo = PROTEGIDO
        /\ pc = "Done" /\ outcome = "returned"
        /\ visited = {} /\ submitted = <<>>
        /\ result.markdown = "" /\ ~result.success /\ result.error = "PDF_PROTECTED"

(* A protected document with dense text and form fields was answered, with *)
(* the remote path otherwise open to it.                                   *)
C4_Witness ==
    /\ pc = "Done" /\ clasificacion.estaProtegido
    /\ buffer.chars = 501 /\ buffer.fields = 1
    /\ options.includeAnalysis /\ options.extractMetadata /\ ~options.useLocalProcessing
    /\ config.openAIEnabled /\ ~config.localProcessingDefault
    /\ ~config.localProcessingForComplex /\ ~config.useForSimplePdfsOnly

(* C5: the decision of shouldUseLocalProcessing is local exactly when      *)
(* OpenAI is disabled, or the request asks for local processing, or local  *)
(* processing is the default, or local-for-complex is on and the document  *)
(* is protected, scanned with empty text, of calidadTexto baja or          *)
(* sin_texto, longer than maxTextLength, or mixed requiring OCR, or        *)
(* simple-only is on and the document is not (native, alta, shorter than   *)
(* maxTextLength).                                                         *)
C5_LocalDecision ==
    result.processingMethod # "none" =>
        LET c == clasificacion
            len == buffer.chars + 2 * buffer.numpages
            complex == \/ c.tipo = PROTEGIDO
                       \/ (c.tipo = ESCANEADO /\ len = 0)
                       \/ c.calidadTexto \in {"baja", "sin_texto"}
                       \/ len > config.maxTextLength
                       \/ (c.tipo = MIXTO /\ c.requiereOCR)
            simple == c.tipo = NATIVO /\ c.calidadTexto = "alta" /\ len < config.maxTextLength
        IN useLocalProcessing <=>
              \/ ~config.openAIEnabled
              \/ options.useLocalProcessing
              \/ config.localProcessingDefault
              \/ (config.localProcessingForComplex /\ complex)
              \/ (config.useForSimplePdfsOnly /\ ~simple)

(* The remote path was chosen for a native document of media quality whose *)
(* text is exactly maxTextLength long, with local-for-complex on.          *)
C5_Witness ==
    /\ pc = "Rendering" /\ ~useLocalProcessing
    /\ config.localProcessingForComplex /\ ~config.useForSimplePdfsOnly
    /\ clasificacion.tipo = NATIVO /\ clasificacion.calidadTexto = "media"
    /\ buffer.chars + 2 * buffer.numpages = config.maxTextLength

(* C6: once the remote rendering call was rejected, with fallbackToLocal   *)
(* the request goes on and returns a successful result whose markdown is   *)
(* the local renderer's, whose processingMethod is local_fallback and      *)
(* whose last warning is GPT_FALLBACK; without fallbackToLocal the request *)
(* has ended with an HttpException and no result.                          *)
C6_RenderFallback ==
    "markdown" \in remoteFailed =>
        IF config.fallbackToLocal
          THEN /\ outcome # "thrown"
               /\ (pc = "Done" => outcome = "returned")
               /\ result.success
               /\ result.markdown \in LocalMarkdowns
               /\ result.processingMethod = "local_fallback"
               /\ Len(result.warnings) > 0
               /\ result.warnings[Len(result.warnings)] = "GPT_FALLBACK"
          ELSE pc = "Done" /\ outcome = "thrown"

(* A request whose remote rendering was rejected after two attempts, the   *)
(* last one with status 429, has returned with the fallback markdown.      *)
C6_Witness ==
    /\ pc = "Done" /\ outcome = "returned"
    /\ "markdown" \in remoteFailed
    /\ config.fallbackToLocal /\ config.maxRetries = 2
    /\ result.processingMethod = "local_fallback"
    /\ result.warnings = <<"GPT_FALLBACK">>

(* C7: when the remote analysis call of a request was rejected, the result *)
(* holds the local analyzer's analysis if fallbackToLocal is set and a     *)
(* null analysis otherwise, and the request returns.                       *)
C7_AnalysisFallback ==
    (pc = "Done" /\ "analysis" \in remoteFailed) =>
        /\ outcome = "returned"
        /\ result.analysis = IF config.fallbackToLocal THEN "local" ELSE "null"


(* What the caller of parsePdf receives: the returned object, or an        *)
(* HttpException that has a message and the status 500 and nothing else.   *)
respuesta ==
    IF outcome = "thrown"
      THEN [clasificacion |-> FALSE, warnings |-> <<>>, success |-> FALSE,
            error |-> "HttpException"]
      ELSE [clasificacion |-> result.clasificacion, warnings |-> result.warnings,
            success |-> result.success, error |-> result.error]

(* C15: a request that takes the local analysis path returns, with the     *)
(* analysis of analyzeContentLocally, whatever the text holds (no, one or  *)
(* several matches of the coverage pattern included).                      *)
C15_LocalAnalysisTotal ==
    (pc = "Done" /\ useLocalProcessing /\ "analyze" \in visited) =>
        /\ outcome = "returned"
        /\ result.analysis = "local"

(* C16: for a buffer pdf-parse cannot read, with local-for-complex on, the *)
(* request returns a result: the classification is the default ESCANEADO   *)
(* with requiereOCR and no text, the markdown is the placeholder of the    *)
(* local renderer and no call was handed to callOpenAIWithRetry.           *)
C16_UnparseableBuffer ==
    (pc = "Done" /\ buffer.parse = "throw" /\ config.localProcessingForComplex) =>
        /\ outcome = "returned"
        /\ clasificacion.tipo = ESCANEADO /\ clasificacion.requiereOCR
        /\ clasificacion.cantidadTexto = 0
        /\ result.markdown = "local:placeholder"
        /\ submitted = <<>>

(* C17: a request that ended in failure after the classifier returned      *)
(* hands its caller the classification and the warnings computed so far,   *)
(* and the error code PDF_PROTECTED only when the document is protected.   *)
C17_FailureCarriesPartial ==
    (pc = "Done" /\ cpc = "returned" /\ ~respuesta.success) =>
        /\ respuesta.clasificacion
        /\ respuesta.warnings = result.warnings
        /\ (clasificacion.requiereOCR /\ buffer.parse = "ok") =>
              \E i \in DOMAIN respuesta.warnings : respuesta.warnings[i] = "OCR_REQUERIDO"
        /\ outcome = "thrown" => respuesta.error # "PDF_PROTECTED"

(* C24: when the decision of a request is local, and so whenever OpenAI is *)
(* disabled or the request sets useLocalProcessing, the request hands no   *)
(* call to callOpenAIWithRetry, for the markdown or for the analysis, and  *)
(* processingMethod of the result it returns is 'local'.                   *)
C24_LocalSubmitsNothing ==
    /\ (~config.openAIEnabled \/ options.useLocalProcessing) =>
          /\ submitted = <<>>
          /\ pc \in {"Rendering", "Analyzing"} => useLocalProcessing
    /\ useLocalProcessing =>
          /\ submitted = <<>>
          /\ "extract" \in visited
          /\ (pc = "Done" /\ outcome = "returned") => result.processingMethod = "local"

(* A request with the override set, on a service with OpenAI enabled and   *)
(* no other reason for local processing, returned with the local markdown  *)
(* and the local analysis.                                                 *)
C24_Witness ==
    /\ pc = "Done" /\ outcome = "returned"
    /\ config.openAIEnabled /\ ~config.localProcessingDefault
    /\ ~config.localProcessingForComplex /\ ~config.useForSimplePdfsOnly
    /\ options.useLocalProcessing /\ options.includeAnalysis
    /\ useLocalProcessing
    /\ result.markdown = "local:general" /\ result.analysis = "local"
    /\ result.processingMethod = "local"

(* C25: useLocalProcessing is set once, before the rendering, and never    *)
(* changes afterwards; a request that chose the remote path, whose remote  *)
(* rendering was rejected and replaced by the local one, and that asks for *)
(* the analysis hands two calls to callOpenAIWithRetry, the markdown first *)
(* and the analysis second.                                                *)
C25_DecisionNotRevised ==
    /\ []( ( pc \in {"AnalyzingRemote", "Done"} /\ outcome # "thrown"
             /\ "markdown" \in remoteFailed /\ options.includeAnalysis ) =>
               /\ ~useLocalProcessing
               /\ result.processingMethod = "local_fallback"
               /\ submitted = <<"markdown", "analysis">> )
    /\ [][ pc \notin {"Classifying", "Extracting"} =>
               useLocalProcessing' = useLocalProcessing ]_vars

(* A request returned with the markdown of the local fallback and the      *)
(* analysis of the remote call.                                            *)
C25_Witness ==
    /\ pc = "Done" /\ outcome = "returned"
    /\ "markdown" \in remoteFailed
    /\ result.processingMethod = "local_fallback"
    /\ result.analysis = "gpt"
    /\ submitted = <<"markdown", "analysis">>

(* C29: a result parsePdf returns has a metadata block only if the request *)
(* set extractMetadata and an analysis block only if it set                *)
(* includeAnalysis, the protected responses included.                      *)
C29_FlagsHonoured ==
    (pc = "Done" /\ outcome = "returned") =>
        /\ result.metadata # "absent" => options.extractMetadata
        /\ result.analysis # "absent" => options.includeAnalysis

-----------------------------------------------------------------------------
(* Strings of the local renderer.  A string is a sequence of tokens: words *)
(* (runs of characters without a colon, kept whole), the blank " ", the    *)
(* colon ":" and the line feed "\n".  A text is the sequence of its lines, *)
(* text.split('\n'), each line a string without "\n".                      *)

Blank == " "
Colon == ":"
LF == "\n"

Whitespace == {Blank, LF}

(* The words of the sample texts, with their length in characters.         *)
WordLength ==
    [w \in {"Policy Number", "Policy Period", "Insured", "Premium", "$500.00",
            "Deductible waived", "Phone", "ABC-123", "12", "01 AM",
            "Farmers Insurance Policy", "TOTAL", "___", "[ ]", "-", "1", ".",
            "2", "a)", "Section",
            "Additional remarks made by the adjuster on site",
            "The company will pay the amount due within thirty days"} |->
        CASE w = "Policy Number" -> 13
          [] w = "Policy Period" -> 13
          [] w = "Insured" -> 7
          [] w = "Premium" -> 7
          [] w = "$500.00" -> 7
          [] w = "Deductible waived" -> 17
          [] w = "Phone" -> 5
          [] w = "ABC-123" -> 7
          [] w = "12" -> 2
          [] w = "01 AM" -> 5
          [] w = "Farmers Insurance Policy" -> 24
          [] w = "TOTAL" -> 5
          [] w = "___" -> 3
          [] w = "[ ]" -> 3
          [] w = "-" -> 1
          [] w = "1" -> 1
          [] w = "." -> 1
          [] w = "2" -> 1
          [] w = "a)" -> 2
          [] w = "Section" -> 7
          [] w = "Additional remarks made by the adjuster on site" -> 48
          [] w = "The company will pay the amount due within thirty days" -> 54]

Words == DOMAIN WordLength

(* String.prototype.length                                                 *)
RECURSIVE length(_)
length(str) ==
    IF str = <<>> THEN 0
    ELSE (IF Head(str) \in Words THEN WordLength[Head(str)] ELSE 1) + length(Tail(str))

(* String.prototype.trim and its two halves.                               *)
RECURSIVE trimStart(_)
trimStart(str) ==
    IF str # <<>> /\ Head(str) \in Whitespace THEN trimStart(Tail(str)) ELSE str

RECURSIVE trimEnd(_)
trimEnd(str) ==
    IF str # <<>> /\ str[Len(str)] \in Whitespace
      THEN trimEnd(SubSeq(str, 1, Len(str) - 1)) ELSE str

trim(str) == trimEnd(trimStart(str))

(* str.includes(':') and str.indexOf(':') counted in tokens.               *)
includes(str, tok) == \E i \in DOMAIN str : str[i] = tok

(* str.split(':'): the pieces between the colons, at least one.            *)
RECURSIVE split(_)
split(str) ==
    IF ~includes(str, Colon) THEN <<str>>
    ELSE LET i == CHOOSE j \in DOMAIN str :
                     str[j] = Colon /\ \A k \in 1..(j - 1) : str[k] # Colon
         IN <<SubSeq(str, 1, i - 1)>> \o split(SubSeq(str, i + 1, Len(str)))

(* The regular expressions of the renderer and of isInsuranceDocument, by  *)
(* the words of the sample texts they match.  No pattern has a colon, so a *)
(* match lies within one word.                                             *)
(*   /Policy\s*Number|Claim\s*Number|Insured|Policy\s*Period/i             *)
PolicyWords == {"Policy Number", "Policy Period", "Insured"}
(*   /Coverage|Premium|Deductible|Limit|\$[\d,]+/i                         *)
CoverageWords == {"Premium", "Deductible waived", "$500.00"}
(*   /Phone|Email|Address|Contact/i                                        *)
ContactWords == {"Phone"}
(*   info.includes('$')                                                    *)
DollarWords == {"$500.00"}

matches(line, words) == \E i \in DOMAIN line : line[i] \in words

(* The words with a lower-case letter, and the words with a capital        *)
(* letter: line === line.toUpperCase() and /[A-Z]/.test(line).             *)
LowerCaseWords ==
    {"Policy Number", "Policy Period", "Insured", "Premium", "Deductible waived",
     "Phone", "Farmers Insurance Policy", "a)", "Section",
     "Additional remarks made by the adjuster on site",
     "The company will pay the amount due within thirty days"}
CapitalWords == LowerCaseWords \cup {"ABC-123", "01 AM", "TOTAL"}

isUpperCase(line) == ~matches(line, LowerCaseWords) /\ matches(line, CapitalWords)

(* The words that begin with a capital letter, and the words that are      *)
(* digits.                                                                 *)
CapitalStartWords == CapitalWords \ {"01 AM", "a)"}
DigitWords == {"1", "2", "12"}
(*   /^(SECTION|ARTICLE|CHAPTER|PART|COVERAGE)\s+/i                        *)
TitleKeywordWords == {"Section"}
(*   /^[\u2022\-\*\u25ba\u25aa\u25e6]\s/ and /^[a-z]\)\s/i                  *)
BulletWords == {"-"}
LetterParenWords == {"a)"}

RECURSIVE dropWhile(_, _)
dropWhile(str, toks) ==
    IF str # <<>> /\ Head(str) \in toks THEN dropWhile(Tail(str), toks) ELSE str

(* The insurance keywords ('policy', 'coverage', 'claim', 'insured',       *)
(* 'premium', 'deductible', 'farmers') each word contains, in lower case.  *)
keywordsOf(w) ==
    CASE w \in {"Policy Number", "Policy Period"} -> {"policy"}
      [] w = "Insured" -> {"insured"}
      [] w = "Premium" -> {"premium"}
      [] w = "Deductible waived" -> {"deductible"}
      [] w = "Farmers Insurance Policy" -> {"farmers", "policy"}
      [] OTHER -> {}

(* Mutant: every word that holds a keyword counts, a keyword found twice   *)
(* counts twice.                                                           *)
isInsuranceDocumentPorApariciones(text) ==
    Cardinality(UNION { { <<i, j>> : j \in {k \in DOMAIN text[i] : keywordsOf(text[i][k]) # {}} } :
                        i \in DOMAIN text }) >= 3

(* isInsuranceDocument: at least 3 of the keywords occur in the text.      *)
isInsuranceDocument(text) ==
    LET found == UNION { UNION { keywordsOf(text[i][j]) : j \in DOMAIN text[i] } :
                         i \in DOMAIN text }
    IN Cardinality(found) >= 3

(* text.split('\n').map(l => l.trim()).filter(l => l)                      *)
RECURSIVE trimmedLines(_)
trimmedLines(text) ==
    IF text = <<>> THEN <<>>
    ELSE LET l == trim(Head(text))
         IN (IF l = <<>> THEN <<>> ELSE <<l>>) \o trimmedLines(Tail(text))

(* text.trim().length === 0, text being the lines joined by "\n".          *)
isBlankText(text) == \A i \in DOMAIN text : trim(text[i]) = <<>>

(* Array.prototype.join and the concatenation of rendered entries.         *)
RECURSIVE join(_, _)
join(strs, sep) ==
    IF strs = <<>> THEN <<>>
    ELSE IF Len(strs) = 1 THEN strs[1]
    ELSE strs[1] \o sep \o join(Tail(strs), sep)

RECURSIVE concat(_)
concat(strs) == IF strs = <<>> THEN <<>> ELSE Head(strs) \o concat(Tail(strs))

(* The glyphs of the renderer, written by name.                            *)
MoneyGlyph == "(money bag)"
PhoneGlyph == "(telephone)"
MemoGlyph == "(memo)"

(* processInsuranceDocument, the if / else-if chain of the loop: the list  *)
(* a line is pushed to.                                                    *)
insuranceListOf(line) ==
    IF matches(line, PolicyWords) THEN "policyInfo"
    ELSE IF matches(line, CoverageWords) THEN "coverageInfo"
    ELSE IF matches(line, ContactWords) THEN "contactInfo"
    ELSE IF length(line) > 10 THEN "generalText"
    ELSE "none"

RECURSIVE linesPushedTo(_, _)
linesPushedTo(lines, list) ==
    IF lines = <<>> THEN <<>>
    ELSE (IF insuranceListOf(Head(lines)) = list THEN <<Head(lines)>> ELSE <<>>)
         \o linesPushedTo(Tail(lines), list)

(* policyInfo.forEach: const [key, value] = info.split(':'), then          *)
(* key.trim() and value.trim(); value is undefined, and value.trim()       *)
(* throws, when split gave a single piece.                                 *)
policyEntry(info) ==
    IF includes(info, Colon)
      THEN LET parts == split(info)
           IN IF Len(parts) < 2
                THEN [threw |-> TRUE, md |-> <<>>]
                ELSE [threw |-> FALSE,
                      md |-> <<"**">> \o trim(parts[1]) \o <<Colon, "**", Blank>>
                             \o trim(parts[2]) \o <<LF, LF>>]
      ELSE [threw |-> FALSE, md |-> info \o <<LF, LF>>]

coverageEntry(info) ==
    IF matches(info, DollarWords) THEN <<MoneyGlyph, Blank>> \o info \o <<LF>>
    ELSE <<"-", Blank>> \o info \o <<LF>>

contactEntry(info) == <<PhoneGlyph, Blank>> \o info \o <<LF>>

processInsuranceDocument(text) ==
    LET lines == trimmedLines(text)
        policyInfo == linesPushedTo(lines, "policyInfo")
        coverageInfo == linesPushedTo(lines, "coverageInfo")
        contactInfo == linesPushedTo(lines, "contactInfo")
        generalText == linesPushedTo(lines, "generalText")
        policy == [i \in DOMAIN policyInfo |-> policyEntry(policyInfo[i])]
    IN [threw |-> \E i \in DOMAIN policy : policy[i].threw,
        md |-> <<"# Documento de Seguro/Poliza", LF, LF>>
               \o (IF Len(policyInfo) > 0
                     THEN <<"## Informacion de la Poliza", LF, LF>>
                          \o concat([i \in DOMAIN policy |-> policy[i].md])
                     ELSE <<>>)
               \o (IF Len(coverageInfo) > 0
                     THEN <<"## Coberturas y Limites", LF, LF>>
                          \o concat([i \in DOMAIN coverageInfo |->
                                        coverageEntry(coverageInfo[i])])
                          \o <<LF>>
                     ELSE <<>>)
               \o (IF Len(contactInfo) > 0
                     THEN <<"## Informacion de Contacto", LF, LF>>
                          \o concat([i \in DOMAIN contactInfo |->
                                        contactEntry(contactInfo[i])])
                          \o <<LF>>
                     ELSE <<>>)
               \o (IF Len(generalText) > 0
                     THEN <<"## Detalles Adicionales", LF, LF>>
                          \o join(SubSeq(generalText, 1,
                                         IF Len(generalText) < 20 THEN Len(generalText) ELSE 20),
                                  <<LF, LF>>)
                     ELSE <<>>)]

(* processFormDocument                                                     *)
formEntry(line) ==
    IF length(line) < 50 /\ isUpperCase(line)
      THEN <<LF, "##", Blank>> \o line \o <<LF, LF>>
    ELSE IF includes(line, Colon) \/ includes(line, "___") \/ includes(line, "[ ]")
      THEN <<MemoGlyph, Blank>> \o line \o <<LF>>
    ELSE IF length(line) > 10
      THEN line \o <<LF, LF>>
    ELSE <<>>

processFormDocument(text) ==
    LET lines == trimmedLines(text)
    IN [threw |-> FALSE,
        md |-> <<"# Formulario", LF, LF>>
               \o concat([i \in DOMAIN lines |-> formEntry(lines[i])])]

(* isLikelyTitle(line, nextLine)                                           *)
isLikelyTitle(line, nextLine) ==
    IF length(line) > 60 \/ length(line) < 3 THEN FALSE
    ELSE \/ isUpperCase(line)
         \/ (Len(line) >= 2 /\ line[1] \in TitleKeywordWords /\ line[2] \in Whitespace)
         \/ LET digits == dropWhile(line, DigitWords)
                dot == IF digits # <<>> /\ Head(digits) = "." THEN Tail(digits) ELSE digits
                rest == dropWhile(dot, Whitespace)
            IN digits # line /\ rest # dot /\ rest # <<>> /\ Head(rest) \in CapitalStartWords

(* isBulletPoint(line)                                                     *)
isBulletPoint(line) ==
    \/ (Len(line) >= 2 /\ line[1] \in BulletWords /\ line[2] \in Whitespace)
    \/ LET digits == dropWhile(line, DigitWords)
       IN digits # line /\ Len(digits) >= 2 /\ digits[1] = "." /\ digits[2] \in Whitespace
    \/ (Len(line) >= 2 /\ line[1] \in LetterParenWords /\ line[2] \in Whitespace)

(* line.replace(/^[<bullets>\-\*\d+\.]\s*/, ''): one character of the      *)
(* class (a bullet, a digit, '+' or '.') and the white space after it.     *)
stripBullet(line) ==
    IF line = <<>> THEN line
    ELSE IF Head(line) \in BulletWords \cup {"1", "2", "."}
      THEN dropWhile(Tail(line), Whitespace)
    ELSE IF Head(line) = "12" THEN <<"2">> \o Tail(line)
    ELSE line

(* processGeneralDocument: the body of the loop for lines[i], on the       *)
(* locals markdown, inList and paragraphBuffer.                            *)
flushParagraph(st) ==
    IF st.paragraphBuffer # <<>>
      THEN [st EXCEPT !.markdown = @ \o st.paragraphBuffer \o <<LF, LF>>,
                      !.paragraphBuffer = <<>>]
      ELSE st

closeList(st) ==
    IF st.inList THEN [st EXCEPT !.markdown = @ \o <<LF>>, !.inList = FALSE] ELSE st

generalStep(st, line, nextLine) ==
    IF isLikelyTitle(line, nextLine)
      THEN LET a == closeList(flushParagraph(st))
           IN [a EXCEPT !.markdown = @ \o <<LF, "##", Blank>> \o line \o <<LF, LF>>]
    ELSE IF includes(line, Colon) /\ length(split(line)[1]) < 50
            /\ length(split(line)[1]) > 2
      THEN LET parts == split(line)
               key == parts[1]
               value == trim(join(Tail(parts), <<Colon>>))
           IN IF key # <<>> /\ value # <<>>
                THEN LET a == flushParagraph(st)
                     IN [a EXCEPT !.markdown = @ \o <<"**">> \o trim(key)
                                               \o <<Colon, "**", Blank>> \o value
                                               \o <<LF, LF>>]
                ELSE st
    ELSE IF isBulletPoint(line)
      THEN LET a == flushParagraph(st)
           IN [a EXCEPT !.inList = TRUE,
                        !.markdown = @ \o <<"-", Blank>> \o stripBullet(line) \o <<LF>>]
    ELSE LET a == closeList(st)
         IN IF length(line) > 40
              THEN LET b == [a EXCEPT !.paragraphBuffer =
                                 IF @ # <<>> THEN @ \o <<Blank>> \o line ELSE line]
                   IN IF nextLine = <<>> \/ length(nextLine) < 40
                         \/ isLikelyTitle(nextLine, <<>>)
                        THEN flushParagraph(b)
                        ELSE b
              ELSE LET b == flushParagraph(a)
                   IN [b EXCEPT !.markdown = @ \o line \o <<LF, LF>>]

RECURSIVE generalLoop(_, _, _)
generalLoop(st, lines, i) ==
    IF i > Len(lines) THEN st
    ELSE generalLoop(generalStep(st, lines[i],
                                 IF i + 1 <= Len(lines) THEN lines[i + 1] ELSE <<>>),
                     lines, i + 1)

processGeneralDocument(text, c) ==
    LET lines == trimmedLines(text)
        header == <<"<!-- Procesado localmente -->", LF,
                    "<!-- Tipo: ", c.tipo, ", Calidad: ", c.calidadTexto, " -->", LF, LF>>
        st == generalLoop([markdown |-> header, inList |-> FALSE, paragraphBuffer |-> <<>>],
                          lines, 1)
    IN [threw |-> FALSE, md |-> trim(flushParagraph(st).markdown)]

(* Mutant: the placeholder only for the empty string.                      *)
processLocalMarkdownTextoSoloVacio(text, c) ==
    IF \A i \in DOMAIN text : text[i] = <<>>
      THEN [threw |-> FALSE,
            md |-> <<"# Documento sin texto extraible", LF, LF, "Tipo: ", c.tipo, LF,
                     "Paginas: ", ToString(c.numeroPaginas)>>]
    ELSE IF isInsuranceDocument(text) THEN processInsuranceDocument(text)
    ELSE IF c.tipo = FORMULARIO THEN processFormDocument(text)
    ELSE processGeneralDocument(text, c)

(* processLocalMarkdown(text, clasificacion) on the text itself: what it   *)
(* returns, or that it throws.                                             *)
processLocalMarkdownTexto(text, c) ==
    IF isBlankText(text)
      THEN [threw |-> FALSE,
            md |-> <<"# Documento sin texto extraible", LF, LF, "Tipo: ", c.tipo, LF,
                     "Paginas: ", ToString(c.numeroPaginas)>>]
    ELSE IF isInsuranceDocument(text) THEN processInsuranceDocument(text)
    ELSE IF c.tipo = FORMULARIO THEN processFormDocument(text)
    ELSE processGeneralDocument(text, c)

-----------------------------------------------------------------------------
(* SpecRender: processLocalMarkdown called twice on one text and one       *)
(* classification.                                                         *)

SampleLines ==
    { <<>>,
      <<Blank>>,
      <<"Policy Number", Colon, Blank, "ABC-123">>,
      <<"Premium", Colon, Blank, "$500.00">>,
      <<"Insured", Blank, "Policy Period", Colon, Blank, "12", Colon, "01 AM">>,
      <<"Insured">>,
      <<Blank, "Deductible waived", Blank>>,
      <<"Phone", Colon, Blank, "ABC-123">>,
      <<"Farmers Insurance Policy">>,
      <<"TOTAL", Colon>>,
      <<"-", Blank, "Insured">>,
      <<"1", ".", Blank, "Premium">>,
      <<"12", ".", Blank, "a)">>,
      <<"The company will pay the amount due within thirty days">>,
      <<"Additional remarks made by the adjuster on site", Colon>>,
      <<"Section", Blank, "2">>,
      <<"[ ]", Blank, "Insured">>,
      <<"a)", Blank, "___">> }

Texts == UNION { [1..n -> SampleLines] : n \in 1..MaxLines }

RenderClasificaciones ==
    { [clasificacionPorDefecto EXCEPT !.tipo = t, !.numeroPaginas = n, !.calidadTexto = q] :
        t \in TipoPDF, n \in {0, MaxPages}, q \in CalidadTexto }

RenderInit ==
    /\ buffer \in {b \in UnparsedBuffers : b.parseMsg = MsgInvalid /\ b.load = "throw"}
    /\ cpc = "start"
    /\ clasificacion \in RenderClasificaciones
    /\ ParseIdle
    /\ QueueIdle
    /\ pdfText \in Texts
    /\ rendered = <<>>
    /\ ExtractIdle

Render ==
    /\ Len(rendered) < 2
    /\ rendered' = Append(rendered, processLocalMarkdownTexto(pdfText, clasificacion))
    /\ UNCHANGED <<classifyVars, parseVars, queueVars, pdfText, extractVars>>

RenderNext == Render

SpecRender == RenderInit /\ [][RenderNext]_vars

InsuranceHeadings ==
    {"## Informacion de la Poliza", "## Coberturas y Limites",
     "## Informacion de Contacto", "## Detalles Adicionales"}

SectionOf(md, heading) ==
    IF ~includes(md, heading) THEN <<>>
    ELSE LET from == CHOOSE i \in DOMAIN md : md[i] = heading
             ends == {j \in DOMAIN md : j > from /\ md[j] \in InsuranceHeadings}
             to == IF ends = {} THEN Len(md)
                   ELSE (CHOOSE j \in ends : \A k \in ends : j <= k) - 1
         IN SubSeq(md, from, to)

Contains(str, sub) ==
    \E i \in 1..(Len(str) - Len(sub) + 1) : SubSeq(str, i, i + Len(sub) - 1) = sub

(* 'K: V' as the claim reads it: K before the first colon, V the rest of   *)
(* the line after it.                                                      *)
KeyOf(line) ==
    LET i == CHOOSE j \in DOMAIN line : line[j] = Colon /\ \A k \in 1..(j - 1) : line[k] # Colon
    IN trim(SubSeq(line, 1, i - 1))

RestOf(line) ==
    LET i == CHOOSE j \in DOMAIN line : line[j] = Colon /\ \A k \in 1..(j - 1) : line[k] # Colon
    IN trim(SubSeq(line, i + 1, Len(line)))

(* C18: for an insurance text, every line 'K: V' that matches the policy   *)
(* patterns is rendered as '**K:** V' under 'Informacion de la Poliza',    *)
(* V being the rest of the line after the first colon; every line that     *)
(* matches the coverage patterns and not the policy patterns is under      *)
(* 'Coberturas y Limites' with its text, after the money glyph when it     *)
(* contains '$'.                                                           *)
C18_InsuranceSections ==
    \A r \in DOMAIN rendered :
        (~isBlankText(pdfText) /\ isInsuranceDocument(pdfText)) =>
            LET md == rendered[r].md
                lines == trimmedLines(pdfText)
            IN /\ ~rendered[r].threw
               /\ \A n \in DOMAIN lines :
                     LET line == lines[n]
                     IN /\ (matches(line, PolicyWords) /\ includes(line, Colon)) =>
                              Contains(SectionOf(md, "## Informacion de la Poliza"),
                                       <<LF, "**">> \o KeyOf(line) \o <<Colon, "**", Blank>>
                                           \o RestOf(line) \o <<LF>>)
                        /\ (matches(line, CoverageWords) /\ ~matches(line, PolicyWords)) =>
                              Contains(SectionOf(md, "## Coberturas y Limites"),
                                       (IF matches(line, DollarWords)
                                          THEN <<LF, MoneyGlyph, Blank>> ELSE <<>>)
                                       \o line \o <<LF>>)

(* The keywords of the insurance detector found in the text, and the first *)
(* line each sub-renderer writes.                                          *)
KeywordsIn(text) ==
    { kw \in {"policy", "coverage", "claim", "insured", "premium", "deductible", "farmers"} :
        \E i \in DOMAIN text : \E j \in DOMAIN text[i] : kw \in keywordsOf(text[i][j]) }

InsuranceHeading == "# Documento de Seguro/Poliza"
FormHeading == "# Formulario"
GeneralHeading == "<!-- Procesado localmente -->"

(* C22: a text that is not empty is rendered by exactly one sub-renderer:  *)
(* the insurance renderer if and only if at least 3 distinct keywords      *)
(* occur in it, otherwise the form renderer if the document is a form,     *)
(* otherwise the general renderer.                                         *)
C22_OneSubRenderer ==
    \A r \in DOMAIN rendered :
        ~isBlankText(pdfText) =>
            LET md == rendered[r].md
                used == {h \in {InsuranceHeading, FormHeading, GeneralHeading} : includes(md, h)}
            IN /\ Cardinality(used) = 1
               /\ md[1] \in used
               /\ InsuranceHeading \in used <=> Cardinality(KeywordsIn(pdfText)) >= 3
               /\ Cardinality(KeywordsIn(pdfText)) < 3 =>
                     /\ FormHeading \in used <=> clasificacion.tipo = FORMULARIO
                     /\ GeneralHeading \in used <=> clasificacion.tipo # FORMULARIO

(* A form whose text holds three keywords was rendered by the insurance    *)
(* renderer.                                                               *)
C22_Witness ==
    /\ Len(rendered) >= 1
    /\ clasificacion.tipo = FORMULARIO
    /\ Cardinality(KeywordsIn(pdfText)) >= 3
    /\ rendered[1].md[1] = InsuranceHeading

(* The locals of processGeneralDocument after k iterations of its loop.    *)
RECURSIVE LoopState(_, _)
LoopState(lines, k) ==
    IF k = 0 THEN [markdown |-> <<>>, inList |-> FALSE, paragraphBuffer |-> <<>>]
    ELSE generalStep(LoopState(lines, k - 1), lines[k],
                     IF k + 1 <= Len(lines) THEN lines[k + 1] ELSE <<>>)

(* A line with a colon at position 3..49.                                  *)
HasField(line) ==
    includes(line, Colon) /\ length(split(line)[1]) > 2 /\ length(split(line)[1]) < 50

RenderedByGeneral(r) == rendered[r].md # <<>> /\ rendered[r].md[1] = GeneralHeading

(* C21: in the general renderer consecutive prose lines longer than 40     *)
(* characters are joined by blanks, in order, into one paragraph; the      *)
(* paragraph is written out exactly when the following line is shorter     *)
(* than 40 characters, is a title or does not exist; the buffer is empty    *)
(* after a title, a key:value field or a bullet line, and when the loop    *)
(* has finished.                                                           *)
C21_ParagraphBuffer ==
    \A r \in DOMAIN rendered :
        RenderedByGeneral(r) =>
            LET lines == trimmedLines(pdfText)
            IN /\ \A k \in DOMAIN lines :
                     LET line == lines[k]
                         nextLine == IF k + 1 <= Len(lines) THEN lines[k + 1] ELSE <<>>
                         before == closeList(LoopState(lines, k - 1))
                         after == LoopState(lines, k)
                         title == isLikelyTitle(line, nextLine)
                         field == ~title /\ HasField(line)
                         bullet == ~title /\ ~field /\ isBulletPoint(line)
                         paragraph == IF before.paragraphBuffer = <<>> THEN line
                                      ELSE before.paragraphBuffer \o <<Blank>> \o line
                     IN /\ (title \/ field \/ bullet) => after.paragraphBuffer = <<>>
                        /\ (~title /\ ~field /\ ~bullet /\ length(line) > 40) =>
                              IF nextLine = <<>> \/ length(nextLine) < 40
                                 \/ isLikelyTitle(nextLine, <<>>)
                                THEN /\ after.paragraphBuffer = <<>>
                                     /\ after.markdown = before.markdown \o paragraph \o <<LF, LF>>
                                ELSE /\ after.paragraphBuffer = paragraph
                                     /\ after.markdown = before.markdown
               /\ LoopState(lines, Len(lines)).paragraphBuffer = <<>>

(* The forms in which the general renderer may write a line: a title, a    *)
(* key:value field, a bullet item with or without its marker, the line     *)
(* alone, or the line after the blank that joins it to a paragraph.        *)
RECURSIVE withoutLF(_)
withoutLF(str) ==
    IF str = <<>> THEN <<>>
    ELSE (IF Head(str) = LF THEN <<>> ELSE <<Head(str)>>) \o withoutLF(Tail(str))

Unmarked(line) ==
    IF Len(line) >= 2 /\ line[1] \in BulletWords \cup LetterParenWords /\ line[2] \in Whitespace
      THEN dropWhile(Tail(line), Whitespace)
    ELSE LET digits == dropWhile(line, DigitWords)
         IN IF digits # line /\ Len(digits) >= 2 /\ digits[1] = "." /\ digits[2] \in Whitespace
              THEN dropWhile(Tail(digits), Whitespace)
              ELSE line

Forms(line) ==
    { <<"##", Blank>> \o line,
      <<"-", Blank>> \o line,
      <<"-", Blank>> \o Unmarked(line),
      line,
      <<Blank>> \o line }
    \cup (IF includes(line, Colon)
            THEN { <<"**">> \o KeyOf(line) \o <<Colon, "**", Blank>> \o RestOf(line),
                   <<"**">> \o KeyOf(line) \o <<Colon, "**">> \o RestOf(line) }
            ELSE {})

(* out is the lines written one after the other, each in one of its forms. *)
RECURSIVE Emits(_, _)
Emits(lines, out) ==
    IF lines = <<>> THEN out = <<>>
    ELSE \E form \in Forms(Head(lines)) :
            /\ Len(form) <= Len(out)
            /\ SubSeq(out, 1, Len(form)) = form
            /\ Emits(Tail(lines), SubSeq(out, Len(form) + 1, Len(out)))

(* The markdown after the two comment lines of the header, without the     *)
(* line feeds.                                                             *)
GeneralBody(md) ==
    LET header == withoutLF(<<GeneralHeading, LF, "<!-- Tipo: ", clasificacion.tipo,
                              ", Calidad: ", clasificacion.calidadTexto, " -->", LF, LF>>)
        flat == withoutLF(md)
    IN SubSeq(flat, Len(header) + 1, Len(flat))

(* C28: the general renderer loses no content: every line of the text that *)
(* is not blank is in the output exactly once, as a title, a key:value     *)
(* field, a bullet item, a line of its own or a part of a paragraph, in    *)
(* the order of the input; a line with a colon at position 3..49 and an    *)
(* empty key or value is written too.                                      *)
C28_NoContentLost ==
    \A r \in DOMAIN rendered :
        RenderedByGeneral(r) =>
            Emits(trimmedLines(pdfText), GeneralBody(rendered[r].md))

-----------------------------------------------------------------------------
(* ClaimsExtractorService.extractFromDocuments                             *)

(* file.originalname of the uploads and the columns of a row of            *)
(* 'claimextract'.  Two of the file names differ in case only; one of the  *)
(* field names is a name every object inherits.                            *)
FileNames == {"demanda.pdf", "DEMANDA.pdf", "poliza.pdf"}
RowFileNames == {"demanda.pdf", "poliza.pdf"}
FieldNames == {"claims", "policy", "toString"}
ObjectPrototypeKeys == {"toString"}

Rows == [filename : RowFileNames, fieldname : FieldNames]
Tables == UNION { [1..n -> Rows] : n \in 0..MaxRows }
Uploads == UNION { [1..n -> [originalname : FileNames]] : n \in 1..MaxFiles }

(* completion.choices[0]?.message?.content: absent, or a string.           *)
NullContent == [present |-> FALSE, text |-> <<>>]
Contents ==
    { [present |-> TRUE, text |-> t] : t \in { <<Blank>>, <<Blank, "ABC-123", LF>>, <<"12">> } }

(* String.prototype.toLowerCase on the file names.                         *)
toLowerCase(name) == IF name = "DEMANDA.pdf" THEN "demanda.pdf" ELSE name

(* Mutant: the file name compared without regard to case.                  *)
findConfigSinMayusculas(cfgs, originalname) ==
    LET hits == {i \in DOMAIN cfgs : toLowerCase(cfgs[i].filename) = toLowerCase(originalname)}
    IN IF hits = {} THEN 0 ELSE CHOOSE i \in hits : \A j \in hits : i <= j

(* extractConfigs.find(c => c.filename === file.originalname): the index   *)
(* of the first such row, 0 for undefined.                                 *)
findConfig(cfgs, originalname) ==
    LET hits == {i \in DOMAIN cfgs : cfgs[i].filename = originalname}
    IN IF hits = {} THEN 0 ELSE CHOOSE i \in hits : \A j \in hits : i <= j

(* result[key] = value, and key in result.                                 *)
setProperty(obj, key, value) == (key :> value) @@ obj
hasProperty(obj, key) == key \in (DOMAIN obj) \cup ObjectPrototypeKeys

(* The second loop: a row whose fieldname is not in result gets ''.        *)
RECURSIVE fillMissing(_, _)
fillMissing(obj, cfgs) ==
    IF cfgs = <<>> THEN obj
    ELSE fillMissing(IF hasProperty(obj, Head(cfgs).fieldname) THEN obj
                     ELSE setProperty(obj, Head(cfgs).fieldname, <<>>),
                     Tail(cfgs))

(* processWithAI: content?.trim() || ''                                    *)
processWithAI(content) == IF ~content.present THEN <<>> ELSE trim(content.text)

(* What the calls of a request did: the operation, the file and the row it *)
(* was made for, whether it threw and the value it returned.               *)
LogEntry(op, file, row, threw, value) ==
    [op |-> op, file |-> file, row |-> row, threw |-> threw, value |-> value]

ExtractInit ==
    /\ buffer \in {b \in UnparsedBuffers : b.parseMsg = MsgInvalid /\ b.load = "throw"}
    /\ cpc = "start"
    /\ clasificacion = SinClasificar
    /\ ParseIdle
    /\ QueueIdle
    /\ RenderIdle
    /\ claimextract \in Tables
    /\ files \in Uploads
    /\ epc = "find"
    /\ extractConfigs = <<>>
    /\ fileIndex = 0
    /\ response = <<>>
    /\ extractLog = <<>>

(* await this.claimExtractRepository.find(): the rows, or the rejection of *)
(* the repository, which extractFromDocuments does not catch.              *)
Find ==
    /\ epc = "find"
    /\ \/ /\ extractConfigs' = claimextract
          /\ fileIndex' = 1
          /\ epc' = "file"
       \/ /\ epc' = "raised"
          /\ UNCHANGED <<extractConfigs, fileIndex>>
    /\ UNCHANGED <<claimextract, files, response, extractLog>>

(* A file without a row: the warning of the else branch.                   *)
IgnoreFile ==
    /\ epc = "file"
    /\ fileIndex <= Len(files)
    /\ findConfig(extractConfigs, files[fileIndex].originalname) = 0
    /\ fileIndex' = fileIndex + 1
    /\ UNCHANGED <<claimextract, files, epc, extractConfigs, response, extractLog>>

(* A file with a row: extractTextFromPdf, which returns the text or        *)
(* throws; the catch block then writes '' under the fieldname.             *)
ExtractTextFromPdf ==
    /\ epc = "file"
    /\ fileIndex <= Len(files)
    /\ LET c == findConfig(extractConfigs, files[fileIndex].originalname)
       IN /\ c # 0
          /\ \/ /\ extractLog' = Append(extractLog, LogEntry("pdfParse", fileIndex, c, FALSE, <<>>))
                /\ epc' = "ai"
                /\ UNCHANGED <<fileIndex, response>>
             \/ /\ extractLog' = Append(extractLog, LogEntry("pdfParse", fileIndex, c, TRUE, <<>>))
                /\ response' = setProperty(response, extractConfigs[c].fieldname, <<>>)
                /\ fileIndex' = fileIndex + 1
                /\ UNCHANGED epc
    /\ UNCHANGED <<claimextract, files, extractConfigs>>

(* processWithAI with the prompt and the example of the row: the           *)
(* completion returns or is rejected.                                      *)
ProcessWithAI ==
    /\ epc = "ai"
    /\ LET c == findConfig(extractConfigs, files[fileIndex].originalname)
       IN \/ \E content \in Contents \cup {NullContent} :
                LET extractedData == processWithAI(content)
                IN /\ extractLog' = Append(extractLog,
                                           LogEntry("completion", fileIndex, c, FALSE, extractedData))
                   /\ response' = setProperty(response, extractConfigs[c].fieldname,
                                               extractedData)
          \/ /\ extractLog' = Append(extractLog, LogEntry("completion", fileIndex, c, TRUE, <<>>))
             /\ response' = setProperty(response, extractConfigs[c].fieldname, <<>>)
    /\ fileIndex' = fileIndex + 1
    /\ epc' = "file"
    /\ UNCHANGED <<claimextract, files, extractConfigs>>

(* After the last file: the second loop, and return result.                *)
FillAndReturn ==
    /\ epc = "file"
    /\ fileIndex > Len(files)
    /\ response' = fillMissing(response, extractConfigs)
    /\ epc' = "done"
    /\ UNCHANGED <<claimextract, files, extractConfigs, fileIndex, extractLog>>

ExtractNext ==
    \/ Find /\ UNCHANGED <<classifyVars, parseVars, queueVars, renderVars>>
    \/ IgnoreFile /\ UNCHANGED <<classifyVars, parseVars, queueVars, renderVars>>
    \/ ExtractTextFromPdf /\ UNCHANGED <<classifyVars, parseVars, queueVars, renderVars>>
    \/ ProcessWithAI /\ UNCHANGED <<classifyVars, parseVars, queueVars, renderVars>>
    \/ FillAndReturn /\ UNCHANGED <<classifyVars, parseVars, queueVars, renderVars>>

SpecExtract == ExtractInit /\ [][ExtractNext]_vars

(* The store has a row whose filename equals the name of file i, and the   *)
(* files the loop has finished with.                                       *)
HasEntry(i) == \E r \in DOMAIN claimextract : claimextract[r].filename = files[i].originalname

Handled(i) ==
    /\ i \in DOMAIN files
    /\ \/ epc \in {"done"}
       \/ epc \in {"file", "ai"} /\ i < fileIndex

Logged(op, i) == \E e \in DOMAIN extractLog : extractLog[e].op = op /\ extractLog[e].file = i

(* C19: text extraction is called for a file if and only if the store has  *)
(* a row whose filename equals the file's name, and the completion API is  *)
(* called only for such a file; the step that handles a file without a row *)
(* makes no call and writes no key of the response.                        *)
C19_ExtractionIffConfigured ==
    /\ [](\A i \in DOMAIN files :
             /\ Handled(i) => (Logged("pdfParse", i) <=> HasEntry(i))
             /\ (Logged("pdfParse", i) \/ Logged("completion", i)) => HasEntry(i))
    /\ [][ (epc = "file" /\ fileIndex \in DOMAIN files /\ ~HasEntry(fileIndex)) =>
               (response' = response /\ extractLog' = extractLog) ]_vars

(* Two files whose names differ in case only, one row for the first: the   *)
(* request returned after a completion for the first file and nothing for  *)
(* the second.                                                             *)
C19_Witness ==
    /\ epc = "done"
    /\ Len(files) = 2
    /\ files[1].originalname = "demanda.pdf" /\ files[2].originalname = "DEMANDA.pdf"
    /\ \A r \in DOMAIN claimextract : claimextract[r].filename = "demanda.pdf"
    /\ Logged("completion", 1)
    /\ ~Logged("pdfParse", 2)
    /\ response # <<>>

(* The calls of the completion API made for row r that returned.           *)
Completed(r) ==
    {e \in DOMAIN extractLog :
        extractLog[e].op = "completion" /\ extractLog[e].row = r /\ ~extractLog[e].threw}

(* C30: a failure of text extraction or of the completion on a file does   *)
(* not fail the request; the keys of the returned response are exactly the *)
(* fieldnames of the rows; a fieldname whose file is absent or failed maps *)
(* to the empty string, and a fieldname whose file was processed maps to   *)
(* the value extracted from that file.                                     *)
C30_CompleteResponse ==
    /\ epc = "raised" => extractLog = <<>>
    /\ epc = "done" =>
          /\ DOMAIN response = {extractConfigs[r].fieldname : r \in DOMAIN extractConfigs}
          /\ \A r \in DOMAIN extractConfigs :
                LET fieldname == extractConfigs[r].fieldname
                IN fieldname \in DOMAIN response =>
                     IF Completed(r) = {}
                       THEN response[fieldname] = <<>>
                       ELSE \E e \in Completed(r) : response[fieldname] = extractLog[e].value

=============================================================================
